---- MODULE Spec2Model ----
(***************************************************************************)
(* A model of the shader-reflection-driven resource binding system of the  *)
(* vulkan-framework repository: the reflection walker (Shader::GetLayout,  *)
(* ParseStruct, ParsePushConsts, Reflect), the per-frame uniform buffers   *)
(* and the push-constant staging of a Shader, the SetParameter family, and *)
(* the pipeline assembler (Pipeline::Setup, CreateDescriptors).            *)
(*                                                                         *)
(* Binding names are kept as the sequence of their dot-separated           *)
(* components: <<"ubo", "scale">> is the C++ string "ubo.scale" and <<>>   *)
(* is the empty string.  Memory is a sequence of bytes, index 1 holding    *)
(* the byte at offset 0.  assert(...) is modelled as written: a failed     *)
(* assertion aborts the process.                                           *)
(***************************************************************************)
EXTENDS Integers, Sequences, FiniteSets, TLC

(***************************************************************************)
(* Program constants.                                                      *)
(***************************************************************************)
MAX_FRAMES_IN_FLIGHT == 2

NumLayoutBuilders == 4

Frames == 0 .. (MAX_FRAMES_IN_FLIGHT - 1)

NULL == "NULL"

(***************************************************************************)
(* Bytes and memory.                                                       *)
(***************************************************************************)
\* v >> (8 * k)
RECURSIVE ShiftBytes(_, _)
ShiftBytes(v, k) == IF k = 0 THEN v ELSE ShiftBytes(v \div 256, k - 1)

\* The object representation of the unsigned integer v in a type of esz
\* bytes on the little-endian target: what memcpy reads from &v.
ToBytes(v, esz) == [i \in 1 .. esz |-> ShiftBytes(v, i - 1) % 256]

\* The bytes of mem at offsets [offset, offset + size).
Slice(mem, offset, size) == [i \in 1 .. size |-> mem[offset + i]]

\* std::memcpy(mem + offset, bytes, Len(bytes)) on a region that holds it.
MemCpy(mem, offset, bytes) ==
    [i \in 1 .. Len(mem) |->
        IF i > offset /\ i <= offset + Len(bytes) THEN bytes[i - offset] ELSE mem[i]]

RECURSIVE Flatten(_)
Flatten(elems) == IF elems = <<>> THEN <<>> ELSE Head(elems) \o Flatten(Tail(elems))

(***************************************************************************)
(* The reflection input: the variable- and type-layout tree that the       *)
(* shader compiler reports.  A type layout has a kind, a uniform size, an  *)
(* element stride, element size and count (arrays), fields (structs),      *)
(* binding ranges and sub-object ranges.                                   *)
(***************************************************************************)
ZeroOffset == [bindingSet |-> 0, binding |-> 0, pushConstantRange |-> 0, subelement |-> 0]

MkOffset(s, b, p, e) == [bindingSet |-> s, binding |-> b, pushConstantRange |-> p, subelement |-> e]

\* Shader::Offset::operator+=
OffsetAdd(a, b) ==
    [bindingSet        |-> a.bindingSet + b.bindingSet,
     binding           |-> a.binding + b.binding,
     pushConstantRange |-> a.pushConstantRange + b.pushConstantRange,
     subelement        |-> a.subelement + b.subelement]

ScalarType(sz) ==
    [kind |-> "Scalar", size |-> sz, stride |-> 0, elemSize |-> sz, count |-> 1,
     fields |-> <<>>, ranges |-> <<>>, subs |-> <<>>]

ArrayType(esz, n, stride) ==
    [kind |-> "Array", size |-> n * stride, stride |-> stride, elemSize |-> esz, count |-> n,
     fields |-> <<>>, ranges |-> <<>>, subs |-> <<>>]

StructType(sz, fields, ranges, subs) ==
    [kind |-> "Struct", size |-> sz, stride |-> 0, elemSize |-> sz, count |-> 1,
     fields |-> fields, ranges |-> ranges, subs |-> subs]

\* A variable layout: its name, its byte offset in the Uniform category,
\* its offsets in the other categories, and its type layout.
VarLayout(name, byteOffset, off, type) ==
    [name |-> name, offset |-> byteOffset, off |-> off, type |-> type]

\* A binding range of an opaque resource with one descriptor range.
ResourceRange(slangType, leafName, indexOffset, count) ==
    [type |-> slangType, leafName |-> leafName,
     descriptorRanges |-> << [type |-> slangType, count |-> count, indexOffset |-> indexOffset] >>]

\* A sub-object range: ConstantBuffer<X>, ParameterBlock<X> or a
\* push-constant ConstantBuffer<X>.
SubObject(slangType, leafName, off, containerOff, containerByteOffset, element) ==
    [type |-> slangType, leafName |-> leafName, offset |-> off,
     container |-> [off |-> containerOff, offset |-> containerByteOffset],
     element |-> element]

(***************************************************************************)
(* The per-stage reflection table that the walker fills: the name ->       *)
(* Binding map, the four descriptor layout builders, the push-constant     *)
(* ranges, the uniform blocks and the aggregate uniform-buffer size.       *)
(* undefined records an index outside the array of builders.               *)
(***************************************************************************)
EmptyShader ==
    [bindings           |-> << >>,
     builders           |-> [i \in 0 .. (NumLayoutBuilders - 1) |-> << >>],
     pushConstants      |-> << >>,
     uniformBufferInfos |-> << >>,
     uniformBufferSize  |-> 0,
     undefined          |-> FALSE]

\* m_bindings[name] = value
Put(f, k, v) == [x \in (DOMAIN f) \cup {k} |-> IF x = k THEN v ELSE f[x]]

\* DescriptorSetLayoutBuilder::AddBinding
AddBinding(bindings, binding, t, count) ==
    Append(bindings, [binding |-> binding, descriptorType |-> t, descriptorCount |-> count])

\* m_descriptorLayoutBuilders[idx].AddBinding(...): the array has four
\* builders, an index past them is undefined behaviour.
BuilderAdd(sh, idx, binding, t, count) ==
    IF idx \in 0 .. (NumLayoutBuilders - 1)
    THEN [sh EXCEPT !.builders[idx] = AddBinding(@, binding, t, count)]
    ELSE [sh EXCEPT !.undefined = TRUE]

SlangBindingTypeToVulkan(bindingType) ==
    CASE bindingType = "Sampler"                         -> "SAMPLER"
      [] bindingType = "CombinedTextureSampler"          -> "COMBINED_IMAGE_SAMPLER"
      [] bindingType = "Texture"                         -> "SAMPLED_IMAGE"
      [] bindingType = "MutableTexture"                  -> "STORAGE_IMAGE"
      [] bindingType = "TypedBuffer"                     -> "UNIFORM_TEXEL_BUFFER"
      [] bindingType = "MutableTypedBuffer"              -> "STORAGE_TEXEL_BUFFER"
      [] bindingType = "RawBuffer"                       -> "STORAGE_BUFFER"
      [] bindingType = "MutableRawBuffer"                -> "STORAGE_BUFFER"
      [] bindingType = "InputRenderTarget"               -> "INPUT_ATTACHMENT"
      [] bindingType = "InlineUniformData"               -> "INLINE_UNIFORM_BLOCK"
      [] bindingType = "RayTracingAccelerationStructure" -> "ACCELERATION_STRUCTURE"
      [] bindingType = "ConstantBuffer"                  -> "UNIFORM_BUFFER"
      [] OTHER                                           -> "MAX_ENUM"

PushConstantBinding(rangeIndex, offs, size) ==
    [set |-> rangeIndex, binding |-> 0, offset |-> offs, size |-> size, stride |-> 0,
     type |-> "MAX_ENUM", isPushConstant |-> TRUE]

RECURSIVE ParsePushConsts(_, _, _, _, _)
RECURSIVE ParsePushConstsFields(_, _, _, _, _, _)

\* The loop body of Shader::ParsePushConsts over the fields from index i.
ParsePushConstsFields(sh, rangeIndex, fields, i, path, offset) ==
    IF i > Len(fields) THEN sh
    ELSE LET field == fields[i]
             name  == Append(path, field.name)
             offs  == field.offset + offset
             sh1   == IF field.type.size > 0
                      THEN IF field.type.kind = "Struct"
                           THEN ParsePushConsts(sh, rangeIndex, field, name, offs)
                           ELSE [sh EXCEPT !.bindings =
                                    Put(@, name, PushConstantBinding(rangeIndex, offs, field.type.size))]
                      ELSE sh
         IN  ParsePushConstsFields(sh1, rangeIndex, fields, i + 1, path, offset)

ParsePushConsts(sh, rangeIndex, var, path, offset) ==
    IF var.type.kind = "Struct"
    THEN ParsePushConstsFields(sh, rangeIndex, var.type.fields, 1, path, offset)
    ELSE sh

UniformBinding(binding, offs, size, stride) ==
    [set |-> binding.bindingSet, binding |-> binding.binding, offset |-> offs, size |-> size,
     stride |-> stride, type |-> "UNIFORM_BUFFER", isPushConstant |-> FALSE]

RECURSIVE ParseStruct(_, _, _, _, _)
RECURSIVE ParseStructFields(_, _, _, _, _, _)

\* The loop body of Shader::ParseStruct over the fields from index i.
ParseStructFields(sh, binding, fields, i, path, offset) ==
    IF i > Len(fields) THEN sh
    ELSE LET field  == fields[i]
             name   == Append(path, field.name)
             offs   == field.offset + offset + sh.uniformBufferSize
             stride == IF field.type.kind = "Array" THEN field.type.stride ELSE 0
             sh1    == IF field.type.size > 0
                       THEN IF field.type.kind = "Struct"
                            THEN ParseStruct(sh, binding, field, name, offs)
                            ELSE [sh EXCEPT !.bindings =
                                     Put(@, name, UniformBinding(binding, offs, field.type.size, stride))]
                       ELSE sh
         IN  ParseStructFields(sh1, binding, fields, i + 1, path, offset)

ParseStruct(sh, binding, var, path, offset) ==
    IF var.type.kind = "Struct"
    THEN ParseStructFields(sh, binding, var.type.fields, 1, path, offset)
    ELSE sh

ResourceBinding(set, binding, t) ==
    [set |-> set, binding |-> binding, offset |-> 0, size |-> 0, stride |-> 0,
     type |-> t, isPushConstant |-> FALSE]

\* The inner loop of Shader::GetLayout over the descriptor ranges of one
\* binding range, from index j.
RECURSIVE GetLayoutDescriptorRanges(_, _, _, _, _, _)
GetLayoutDescriptorRanges(sh, range, offset, path, isParameterBlock, j) ==
    IF j > Len(range.descriptorRanges) THEN sh
    ELSE LET d    == range.descriptorRanges[j]
             skip == d.type \in {"ExistentialValue", "InlineUniformData", "PushConstant"}
             vkDescriptorType   == SlangBindingTypeToVulkan(d.type)
             descriptorSetIndex == IF isParameterBlock THEN offset.subelement ELSE offset.bindingSet
             binding            == offset.binding + d.indexOffset
             name == IF range.leafName # NULL THEN Append(path, range.leafName) ELSE path
             sh1  == BuilderAdd(sh, descriptorSetIndex, binding, vkDescriptorType, d.count)
             sh2  == [sh1 EXCEPT !.bindings =
                         Put(@, name, ResourceBinding(descriptorSetIndex, binding, vkDescriptorType))]
         IN  GetLayoutDescriptorRanges(IF skip THEN sh ELSE sh2,
                                       range, offset, path, isParameterBlock, j + 1)

\* The first loop of Shader::GetLayout, over the binding ranges from index r.
RECURSIVE GetLayoutBindingRanges(_, _, _, _, _, _)
GetLayoutBindingRanges(sh, tl, offset, path, isParameterBlock, r) ==
    IF r > Len(tl.ranges) THEN sh
    ELSE LET range == tl.ranges[r]
             skip  == \/ range.type \in {"ParameterBlock", "ConstantBuffer",
                                         "ExistentialValue", "PushConstant"}
                      \/ Len(range.descriptorRanges) = 0
             sh1   == IF skip THEN sh
                      ELSE GetLayoutDescriptorRanges(sh, range, offset, path, isParameterBlock, 1)
         IN  GetLayoutBindingRanges(sh1, tl, offset, path, isParameterBlock, r + 1)

\* The offset a push-constant range holds until Reflect assigns it:
\* 0xFFFFFFFF, the 32-bit pattern of -1.
UnsetOffset == -1

\* m_pushConstants.resize(rangeIndex + 1) when it is too short, then
\* m_pushConstants[rangeIndex] = pc.
SetPushConstantRange(ranges, rangeIndex, pc) ==
    LET n       == IF Len(ranges) <= rangeIndex THEN rangeIndex + 1 ELSE Len(ranges)
        resized == [i \in 1 .. n |-> IF i <= Len(ranges) THEN ranges[i]
                                     ELSE [offset |-> 0, size |-> 0]]
    IN  [resized EXCEPT ![rangeIndex + 1] = pc]

RECURSIVE GetLayout(_, _, _, _, _)
RECURSIVE GetLayoutSubObjects(_, _, _, _, _, _)
RECURSIVE GetLayoutPushConstantFields(_, _, _, _)

\* case slang::BindingType::ParameterBlock
GetLayoutParameterBlock(sh, sub, subObjectOffset, varPath) ==
    LET hasData == sub.element.type.size > 0
        sh1     == IF hasData
                   THEN BuilderAdd(sh, subObjectOffset.subelement, 0, "UNIFORM_BUFFER", 1)
                   ELSE sh
        offs    == IF hasData
                   THEN [subObjectOffset EXCEPT !.binding = @ + 1]
                   ELSE subObjectOffset
    IN  GetLayout(sh1, sub.element, offs, varPath, TRUE)

\* case slang::BindingType::ConstantBuffer
GetLayoutConstantBuffer(sh, sub, subObjectOffset, varPath, isParameterBlock) ==
    LET containerOffset    == OffsetAdd(subObjectOffset, sub.container.off)
        elementOffset      == OffsetAdd(subObjectOffset, sub.element.off)
        size               == sub.element.type.size
        descriptorSetIndex == IF isParameterBlock THEN containerOffset.subelement
                                                  ELSE containerOffset.bindingSet
        sh1 == BuilderAdd(sh, descriptorSetIndex, containerOffset.binding, "UNIFORM_BUFFER", 1)
        sh2 == IF sub.element.type.kind = "Struct"
               THEN ParseStruct(sh1, containerOffset, sub.element, varPath, sub.container.offset)
               ELSE sh1
        sh3 == [sh2 EXCEPT
                  !.uniformBufferInfos =
                      Append(@, [set |-> descriptorSetIndex, binding |-> containerOffset.binding,
                                 size |-> size, offset |-> sh2.uniformBufferSize]),
                  !.uniformBufferSize = @ + size]
    IN  GetLayout(IF size # 0 THEN sh3 ELSE sh, sub.element, elementOffset, varPath, FALSE)

\* case slang::BindingType::PushConstant
GetLayoutPushConstant(sh, sub, subObjectOffset, varPath) ==
    LET containerOffset == OffsetAdd(subObjectOffset, sub.container.off)
        elementOffset   == OffsetAdd(subObjectOffset, sub.element.off)
        size            == sub.element.type.size
        rangeIndex      == containerOffset.pushConstantRange
        sh1 == ParsePushConsts(sh, rangeIndex, sub.element, varPath, sub.container.offset)
        sh2 == [sh1 EXCEPT !.pushConstants =
                   SetPushConstantRange(@, rangeIndex, [offset |-> UnsetOffset, size |-> size])]
        sh3 == IF size > 0 THEN sh2 ELSE sh
    IN  IF sub.element.type.kind = "Struct" /\ varPath = << >>
        THEN GetLayoutPushConstantFields(sh3, sub.element.type.fields, elementOffset, 1)
        ELSE GetLayout(sh3, sub.element, elementOffset, varPath, FALSE)

\* The field loop of the push-constant case when the path is empty.
GetLayoutPushConstantFields(sh, fields, elementOffset, i) ==
    IF i > Len(fields) THEN sh
    ELSE LET field       == fields[i]
             fieldOffset == OffsetAdd(field.off, elementOffset)
         IN  GetLayoutPushConstantFields(
                 GetLayout(sh, field, fieldOffset, << field.name >>, FALSE),
                 fields, elementOffset, i + 1)

\* The second loop of Shader::GetLayout, over the sub-object ranges from
\* index k.
GetLayoutSubObjects(sh, tl, offset, path, isParameterBlock, k) ==
    IF k > Len(tl.subs) THEN sh
    ELSE LET sub             == tl.subs[k]
             subObjectOffset == OffsetAdd(offset, sub.offset)
             varPath == IF sub.leafName # NULL THEN Append(path, sub.leafName) ELSE path
             sh1 == CASE sub.type = "ParameterBlock" ->
                             GetLayoutParameterBlock(sh, sub, subObjectOffset, varPath)
                      [] sub.type = "ConstantBuffer" ->
                             GetLayoutConstantBuffer(sh, sub, subObjectOffset, varPath, isParameterBlock)
                      [] sub.type = "PushConstant" ->
                             GetLayoutPushConstant(sh, sub, subObjectOffset, varPath)
                      [] OTHER -> sh
         IN  GetLayoutSubObjects(sh1, tl, offset, path, isParameterBlock, k + 1)

GetLayout(sh, vl, offset, path, isParameterBlock) ==
    GetLayoutSubObjects(
        GetLayoutBindingRanges(sh, vl.type, offset, path, isParameterBlock, 1),
        vl.type, offset, path, isParameterBlock, 1)

\* Every range left at offset 0 and no Binding shifted.
ApplyPushConstantOffsetsUnshifted(sh, i, totalSize) ==
    [sh EXCEPT !.pushConstants = [k \in DOMAIN @ |-> [@[k] EXCEPT !.offset = 0]]]

\* The running offsets of Shader::Reflect: range i starts at the sum of the
\* sizes before it, and the push-constant Bindings of range i are shifted.
RECURSIVE ApplyPushConstantOffsets(_, _, _)
ApplyPushConstantOffsets(sh, i, totalSize) ==
    IF i >= Len(sh.pushConstants) THEN sh
    ELSE LET shifted == [n \in DOMAIN sh.bindings |->
                            IF sh.bindings[n].isPushConstant /\ sh.bindings[n].set = i
                            THEN [sh.bindings[n] EXCEPT !.offset = @ + totalSize]
                            ELSE sh.bindings[n]]
             sh1 == [sh EXCEPT !.pushConstants[i + 1].offset = totalSize,
                               !.bindings = shifted]
         IN  ApplyPushConstantOffsets(sh1, i + 1, totalSize + sh.pushConstants[i + 1].size)

\* The non-empty builders, in set order: one descriptor layout each.
RECURSIVE BuildLayouts(_, _)
BuildLayouts(builders, i) ==
    IF i >= NumLayoutBuilders THEN << >>
    ELSE (IF builders[i] # << >> THEN << builders[i] >> ELSE << >>)
         \o BuildLayouts(builders, i + 1)

\* Shader::Reflect
Reflect(layout) ==
    LET sh1 == GetLayout(EmptyShader, layout.globals, layout.globals.off, << >>, FALSE)
        sh2 == GetLayout(sh1, layout.entryPoint, layout.entryPoint.off, << >>, FALSE)
        sh3 == ApplyPushConstantOffsets(sh2, 0, 0)
    IN  [bindings           |-> sh3.bindings,
         builders           |-> sh3.builders,
         pushConstants      |-> sh3.pushConstants,
         uniformBufferInfos |-> sh3.uniformBufferInfos,
         uniformBufferSize  |-> sh3.uniformBufferSize,
         undefined          |-> sh3.undefined,
         descriptorLayouts  |-> BuildLayouts(sh3.builders, 0)]

(***************************************************************************)
(* Reflection inputs: three shaders as the compiler reports them.          *)
(***************************************************************************)
Anonymous(type) == VarLayout(NULL, 0, ZeroOffset, type)

\* A compute shader: RWStructuredBuffer data at set 0, slot 0, and the
\* entry point's uniform parameters "uint count; bool flags[2]" in a
\* push-constant block.
LayoutCompute ==
    [globals    |-> Anonymous(StructType(0, << >>,
                        << ResourceRange("MutableRawBuffer", "data", 0, 1) >>, << >>)),
     entryPoint |-> VarLayout("main", 0, ZeroOffset, StructType(0, << >>, << >>,
                        << SubObject("PushConstant", NULL, ZeroOffset, ZeroOffset, 0,
                              Anonymous(StructType(12,
                                  << VarLayout("count", 0, ZeroOffset, ScalarType(4)),
                                     VarLayout("flags", 4, ZeroOffset, ArrayType(4, 2, 4)) >>,
                                  << >>, << >>))) >>))]

\* A std140 constant buffer "ubo { float scale; bool on; uint padded[2]; }"
\* at set 0, slot 0 and a combined image sampler "tex" at slot 1.
LayoutStd140 ==
    [globals    |-> Anonymous(StructType(0, << >>,
                        << ResourceRange("CombinedTextureSampler", "tex", 1, 1) >>,
                        << SubObject("ConstantBuffer", "ubo", ZeroOffset, ZeroOffset, 0,
                              Anonymous(StructType(48,
                                  << VarLayout("scale", 0, ZeroOffset, ScalarType(4)),
                                     VarLayout("on", 4, ZeroOffset, ScalarType(4)),
                                     VarLayout("padded", 16, ZeroOffset, ArrayType(4, 2, 16)) >>,
                                  << >>, << >>))) >>)),
     entryPoint |-> VarLayout("main", 0, ZeroOffset, StructType(0, << >>, << >>, << >>))]

\* Two scalar-layout constant buffers, "cam { uint tight[2]; }" at slot 0
\* and "obj { uint id; uint64_t wide; }" at slot 1, a storage image "img"
\* at slot 2, and a push-constant block "pc { bool lit; }".
LayoutScalar ==
    [globals    |-> Anonymous(StructType(0, << >>,
                        << ResourceRange("MutableTexture", "img", 2, 1) >>,
                        << SubObject("ConstantBuffer", "cam", ZeroOffset, ZeroOffset, 0,
                              Anonymous(StructType(8,
                                  << VarLayout("tight", 0, ZeroOffset, ArrayType(4, 2, 4)) >>,
                                  << >>, << >>))),
                           SubObject("ConstantBuffer", "obj", MkOffset(0, 1, 0, 0), ZeroOffset, 0,
                              Anonymous(StructType(16,
                                  << VarLayout("id", 0, ZeroOffset, ScalarType(4)),
                                     VarLayout("wide", 8, ZeroOffset, ScalarType(8)) >>,
                                  << >>, << >>))),
                           SubObject("PushConstant", "pc", ZeroOffset, ZeroOffset, 0,
                              Anonymous(StructType(4,
                                  << VarLayout("lit", 0, ZeroOffset, ScalarType(4)) >>,
                                  << >>, << >>))) >>)),
     entryPoint |-> VarLayout("main", 0, ZeroOffset, StructType(0, << >>, << >>, << >>))]

ShaderLayouts == {LayoutCompute, LayoutStd140, LayoutScalar}

(***************************************************************************)
(* Bounds of the model and the inputs of SetParameter.                     *)
(***************************************************************************)
\* SetParameter and Setup calls per behaviour.
MaxCalls == 2

\* The longest std::vector passed to SetParameter.
MaxVecLen == 3

\* sizeof(T) of the scalar and element types passed: uint32_t/float, uint64_t.
ElemSizes == {4, 8}

ScalarValues == {7, 258}

\* A vector of n elements holds base, base + 1, ...: its elements differ.
VecBases == {255}

\* What a mapped uniform buffer holds before its first write.
UninitFill == {0, 205}

\* The byte a read past the end of the caller's object may yield, when it
\* does not fault.
JunkBytes == {170}

UnknownName == << "nosuch" >>

Images == {"imageA"}

\* Buffer handles with their sizes.
Buffers == {[id |-> "bufferA", size |-> 16]}

(***************************************************************************)
(* The state: one Shader and one Pipeline under construction.              *)
(***************************************************************************)
VARIABLES
    shader,              \* the reflection table of the Shader, fixed by its constructor
    decl,                \* the declared type of every data field (from the reflection input)
    m_uniformBuffers,    \* per frame slot, the bytes of the uniform buffer
    m_pushConstantData,  \* the bytes of the push-constant staging buffer
    m_descriptorSets,    \* per frame slot, per layout, slot -> the descriptor written
    log,                 \* the messages the last call logged
    vkCalls,             \* the Vulkan calls the last call issued
    status,              \* "running", "aborted" (abort()), "undefined" (undefined behaviour)
    lastCall,            \* the last call and its arguments
    nCalls,              \* the number of calls made
    pipeline,            \* the Pipeline object being constructed
    renderer             \* the Renderer: frame slot, fences, render commands, GPU work

vars == << shader, decl, m_uniformBuffers, m_pushConstantData, m_descriptorSets,
           log, vkCalls, status, lastCall, nCalls, pipeline, renderer >>

shaderVars == << shader, decl, m_uniformBuffers, m_pushConstantData, m_descriptorSets >>

NoCall == [op |-> "none"]

NoPipeline == [state |-> "none"]

NoRenderer == [pc |-> "none"]

(***************************************************************************)
(* Construction of a Shader.                                               *)
(***************************************************************************)
\* The declared types of the data fields of a struct, by path.
RECURSIVE DeclaredFields(_, _, _)
DeclaredFields(fields, i, path) ==
    IF i > Len(fields) THEN << >>
    ELSE LET field == fields[i]
             name  == Append(path, field.name)
             rest  == DeclaredFields(fields, i + 1, path)
             here  == IF field.type.kind = "Struct"
                      THEN DeclaredFields(field.type.fields, 1, name)
                      ELSE (name :> [kind |-> field.type.kind, elemSize |-> field.type.elemSize,
                                     count |-> field.type.count,
                                     stride |-> IF field.type.kind = "Array"
                                                THEN field.type.stride ELSE 0])
         IN  here @@ rest

\* The declared types of the data fields of the constant buffers and
\* push-constant blocks of a variable.
RECURSIVE DeclaredSubs(_, _)
DeclaredSubs(subs, k) ==
    IF k > Len(subs) THEN << >>
    ELSE LET sub  == subs[k]
             path == IF sub.leafName # NULL THEN << sub.leafName >> ELSE << >>
         IN  DeclaredFields(sub.element.type.fields, 1, path) @@ DeclaredSubs(subs, k + 1)

Declared(layout) ==
    DeclaredSubs(layout.globals.type.subs, 1) @@ DeclaredSubs(layout.entryPoint.type.subs, 1)

\* vkUpdateDescriptorSets of one descriptor: slot binding of the table.
WriteDescriptor(table, binding, descriptor) == Put(table, binding, descriptor)

\* Shader::CreateDescriptors: per frame slot one table per layout.
CreateDescriptors(sh) ==
    [f \in 1 .. MAX_FRAMES_IN_FLIGHT |-> [l \in 1 .. Len(sh.descriptorLayouts) |-> << >>]]

UniformDescriptor(frame, info) ==
    [type |-> "UNIFORM_BUFFER", kind |-> "buffer", resource |-> << "m_uniformBuffers", frame >>,
     offset |-> info.offset, range |-> info.size]

\* The loops of the constructor that point every frame slot's table at that
\* slot's uniform buffer; an index past the tables is undefined behaviour.
RECURSIVE BindUniformBuffers(_, _, _, _)
BindUniformBuffers(sets, infos, frame, k) ==
    IF frame >= MAX_FRAMES_IN_FLIGHT THEN [sets |-> sets, undefined |-> FALSE]
    ELSE IF k > Len(infos) THEN BindUniformBuffers(sets, infos, frame + 1, 1)
    ELSE IF infos[k].set >= Len(sets[frame + 1]) THEN [sets |-> sets, undefined |-> TRUE]
    ELSE BindUniformBuffers(
            [sets EXCEPT ![frame + 1][infos[k].set + 1] =
                WriteDescriptor(@, infos[k].binding, UniformDescriptor(frame, infos[k]))],
            infos, frame, k + 1)

\* The uniform buffers the constructor creates: none when the shader has no
\* uniform data.
CreateUniformBuffers(sh, fill) ==
    IF sh.uniformBufferSize > 0
    THEN [f \in 1 .. MAX_FRAMES_IN_FLIGHT |-> [i \in 1 .. sh.uniformBufferSize |-> fill]]
    ELSE << >>

RECURSIVE SumSizes(_)
SumSizes(ranges) == IF ranges = << >> THEN 0 ELSE Head(ranges).size + SumSizes(Tail(ranges))

\* The push-constant staging buffer: zeroed, of the aggregate push-constant
\* size.
PushConstantStaging(sh) == [i \in 1 .. SumSizes(sh.pushConstants) |-> 0]

ShaderInit ==
    \E layout \in ShaderLayouts, fill \in UninitFill :
        /\ shader = Reflect(layout)
        /\ ~shader.undefined
        /\ decl = Declared(layout)
        /\ m_uniformBuffers = CreateUniformBuffers(shader, fill)
        /\ m_pushConstantData = PushConstantStaging(shader)
        /\ LET bound == BindUniformBuffers(CreateDescriptors(shader),
                                           shader.uniformBufferInfos, 0, 1)
           IN  /\ ~bound.undefined
               /\ m_descriptorSets = bound.sets

(***************************************************************************)
(* Shader::SetParameter of plain data.                                     *)
(***************************************************************************)
\* A lookup with m_bindings[name], which inserts a default Binding for a name
\* that is missing.
LookupOrInsert(bindings, name) ==
    IF name \in DOMAIN bindings
    THEN [found |-> TRUE, binding |-> bindings[name]]
    ELSE [found |-> TRUE,
          binding |-> [set |-> 0, binding |-> 0, offset |-> 0, size |-> 0, stride |-> 0,
                       type |-> "MAX_ENUM", isPushConstant |-> FALSE]]

\* m_bindings.find(name)
Lookup(bindings, name) ==
    IF name \in DOMAIN bindings
    THEN [found |-> TRUE, binding |-> bindings[name]]
    ELSE [found |-> FALSE, binding |-> NULL]

\* The size bytes memcpy reads at src: past the end of the object it reads
\* whatever follows it.
ReadBytes(src, size, junk) ==
    [i \in 1 .. size |-> IF i <= Len(src) THEN src[i] ELSE junk]

\* The copies of the scalar overload: binding.size bytes at binding.offset.
ScalarWrites(binding, data, junk) ==
    << [offset |-> binding.offset, bytes |-> ReadBytes(data, binding.size, junk)] >>

\* The copies of the vector overload: element by element at the binding's
\* stride when it differs from sizeof(T), else binding.size bytes at once.
VectorWrites(binding, esz, data, junk) ==
    IF binding.stride # esz
    THEN [i \in 1 .. Len(data) |->
            [offset |-> binding.offset + (i - 1) * binding.stride, bytes |-> data[i]]]
    ELSE << [offset |-> binding.offset,
             bytes  |-> ReadBytes(Flatten(data), binding.size, junk)] >>

\* Does the call read past the end of the caller's object?
ReadsPast(binding, isVector, esz, data) ==
    IF isVector
    THEN binding.stride = esz /\ binding.size > esz * Len(data)
    ELSE binding.size > Len(data)

\* Buffer::Fill: asserts the range, then copies into the mapped memory.
Fill(buffer, bytes, offset) ==
    IF offset + Len(bytes) <= Len(buffer)
    THEN [mem |-> MemCpy(buffer, offset, bytes), aborted |-> FALSE]
    ELSE [mem |-> buffer, aborted |-> TRUE]

RECURSIVE FillAll(_, _, _)
FillAll(buffer, writes, i) ==
    IF i > Len(writes) THEN [mem |-> buffer, aborted |-> FALSE]
    ELSE LET r == Fill(buffer, writes[i].bytes, writes[i].offset)
         IN  IF r.aborted THEN r ELSE FillAll(r.mem, writes, i + 1)

\* memcpy(&m_pushConstantData[offset], ...): outside the staging buffer it
\* is undefined behaviour.
RECURSIVE CopyAll(_, _, _)
CopyAll(staging, writes, i) ==
    IF i > Len(writes) THEN [mem |-> staging, undefined |-> FALSE]
    ELSE IF writes[i].offset + Len(writes[i].bytes) > Len(staging)
              \/ writes[i].offset >= Len(staging)
         THEN [mem |-> staging, undefined |-> TRUE]
         ELSE CopyAll(MemCpy(staging, writes[i].offset, writes[i].bytes), writes, i + 1)

\* A store that writes a uniform value to the buffer of every frame slot.
StoreWritesAllFrames(ub, pc, binding, frameIndex, writes) ==
    IF binding.isPushConstant
    THEN LET r == CopyAll(pc, writes, 1)
         IN  [ub |-> ub, pc |-> r.mem, aborted |-> FALSE, undefined |-> r.undefined]
    ELSE IF frameIndex >= Len(ub)
         THEN [ub |-> ub, pc |-> pc, aborted |-> FALSE, undefined |-> TRUE]
         ELSE [ub |-> [f \in 1 .. Len(ub) |-> FillAll(ub[f], writes, 1).mem], pc |-> pc,
               aborted |-> FillAll(ub[frameIndex + 1], writes, 1).aborted,
               undefined |-> FALSE]

\* A store that keeps one region of the staging buffer per frame slot.
StoreWritesPerFrameStaging(ub, pc, binding, frameIndex, writes) ==
    IF binding.isPushConstant
    THEN LET shifted == [i \in 1 .. Len(writes) |->
                            [offset |-> writes[i].offset + frameIndex,
                             bytes  |-> writes[i].bytes]]
             r       == CopyAll(pc, shifted, 1)
         IN  [ub |-> ub, pc |-> r.mem, aborted |-> FALSE, undefined |-> r.undefined]
    ELSE IF frameIndex >= Len(ub)
         THEN [ub |-> ub, pc |-> pc, aborted |-> FALSE, undefined |-> TRUE]
         ELSE LET r == FillAll(ub[frameIndex + 1], writes, 1)
              IN  [ub |-> [ub EXCEPT ![frameIndex + 1] = r.mem], pc |-> pc,
                   aborted |-> r.aborted, undefined |-> FALSE]

\* The two branches after the lookup: the staging buffer for a push-constant
\* binding, else the uniform buffer of the frame slot.
StoreWrites(ub, pc, binding, frameIndex, writes) ==
    IF binding.isPushConstant
    THEN LET r == CopyAll(pc, writes, 1)
         IN  [ub |-> ub, pc |-> r.mem, aborted |-> FALSE, undefined |-> r.undefined]
    ELSE IF frameIndex >= Len(ub)
         THEN [ub |-> ub, pc |-> pc, aborted |-> FALSE, undefined |-> TRUE]
         ELSE LET r == FillAll(ub[frameIndex + 1], writes, 1)
              IN  [ub |-> [ub EXCEPT ![frameIndex + 1] = r.mem], pc |-> pc,
                   aborted |-> r.aborted, undefined |-> FALSE]

Warning(name) == << "warn", "Binding not found", name >>

\* One call of SetParameter<T> with plain data, scalar or vector.
SetParameterData(op, frameIndex, name, value, isVector, esz, data, junk, fault) ==
    LET found == Lookup(shader.bindings, name)
        call  == [op |-> op, frameIndex |-> frameIndex, name |-> name,
                  value |-> value, esz |-> esz, data |-> data, junk |-> junk]
    IN  /\ lastCall' = call
        /\ vkCalls' = << >>
        /\ nCalls' = nCalls + 1
        /\ UNCHANGED << shader, decl, m_descriptorSets, pipeline, renderer >>
        /\ IF ~found.found
           THEN /\ junk = 0 /\ ~fault
                /\ log' = << Warning(name) >>
                /\ UNCHANGED << m_uniformBuffers, m_pushConstantData, status >>
           ELSE LET binding == found.binding
                    past    == ReadsPast(binding, isVector, esz, data)
                    writes  == IF isVector THEN VectorWrites(binding, esz, data, junk)
                                           ELSE ScalarWrites(binding, data, junk)
                    r       == StoreWrites(m_uniformBuffers, m_pushConstantData, binding,
                                           frameIndex, writes)
                IN  /\ log' = << >>
                    /\ IF past THEN junk \in JunkBytes ELSE junk = 0 /\ ~fault
                    /\ IF fault
                       THEN /\ status' = "undefined"
                            /\ UNCHANGED << m_uniformBuffers, m_pushConstantData >>
                       ELSE /\ m_uniformBuffers' = r.ub
                            /\ m_pushConstantData' = r.pc
                            /\ status' = IF r.undefined THEN "undefined"
                                         ELSE IF r.aborted THEN "aborted" ELSE "running"

CanCall == status = "running" /\ nCalls < MaxCalls

\* The vector of n elements of esz bytes that starts at base.
VectorOf(n, esz, base) == [i \in 1 .. n |-> ToBytes(base + i - 1, esz)]

Names == DOMAIN shader.bindings \cup {UnknownName}

JunkChoices == {0} \cup JunkBytes

\* SetParameter<T>(frameIndex, name, const T& data)
SetParameterScalar ==
    /\ CanCall
    /\ \E frameIndex \in Frames, name \in Names, esz \in ElemSizes, v \in ScalarValues,
          junk \in JunkChoices, fault \in BOOLEAN :
          SetParameterData("scalar", frameIndex, name, v, FALSE, esz, ToBytes(v, esz),
                           junk, fault)

\* SetParameter<T>(frameIndex, name, const std::vector<T>& data)
SetParameterVector ==
    /\ CanCall
    /\ \E frameIndex \in Frames, name \in Names, esz \in ElemSizes, n \in 0 .. MaxVecLen,
          base \in VecBases, junk \in JunkChoices, fault \in BOOLEAN :
          SetParameterData("vector", frameIndex, name, [i \in 1 .. n |-> base + i - 1], TRUE,
                           esz, VectorOf(n, esz, base), junk, fault)

\* The object representation of the bool itself: one byte.
BoolAsByte(b) == << IF b THEN 1 ELSE 0 >>

\* static_cast<int32_t>(data) of a bool.
BoolToInt32(b) == ToBytes(IF b THEN 1 ELSE 0, 4)

\* SetParameter<bool>(frameIndex, name, const bool& data)
SetParameterBool ==
    /\ CanCall
    /\ \E frameIndex \in Frames, name \in Names, b \in BOOLEAN, junk \in JunkChoices,
          fault \in BOOLEAN :
          SetParameterData("bool", frameIndex, name, b, FALSE, 4, BoolToInt32(b), junk, fault)

\* The vector<bool> of n elements that starts with first and alternates.
BoolVectorOf(n, first) == [i \in 1 .. n |-> IF i % 2 = 1 THEN first ELSE ~first]

\* SetParameter<bool>(frameIndex, name, const std::vector<bool>& data)
SetParameterVectorBool ==
    /\ CanCall
    /\ \E frameIndex \in Frames, name \in Names, n \in 0 .. MaxVecLen, first \in BOOLEAN,
          junk \in JunkChoices, fault \in BOOLEAN :
          LET bools == BoolVectorOf(n, first)
          IN  SetParameterData("vectorBool", frameIndex, name, bools, TRUE, 4,
                               [i \in 1 .. n |-> BoolToInt32(bools[i])], junk, fault)

(***************************************************************************)
(* Shader::SetParameter of a resource handle.                              *)
(***************************************************************************)
ImageDescriptor(binding, image) ==
    [type |-> binding.type, kind |-> "image", resource |-> image, offset |-> 0, range |-> 0]

BufferDescriptor(binding, buffer) ==
    [type |-> binding.type, kind |-> "buffer", resource |-> buffer.id, offset |-> 0,
     range |-> buffer.size]

\* vkUpdateDescriptorSets on m_descriptorSets[frameIndex][binding.set]; an
\* index past the tables is undefined behaviour.
UpdateDescriptorSets(sets, frameIndex, binding, descriptor) ==
    IF frameIndex >= Len(sets) \/ binding.set >= Len(sets[frameIndex + 1])
    THEN [sets |-> sets, calls |-> << >>, undefined |-> TRUE]
    ELSE [sets  |-> [sets EXCEPT ![frameIndex + 1][binding.set + 1] =
                        WriteDescriptor(@, binding.binding, descriptor)],
          calls |-> << [call |-> "vkUpdateDescriptorSets", frameIndex |-> frameIndex,
                        set |-> binding.set, binding |-> binding.binding,
                        descriptor |-> descriptor] >>,
          undefined |-> FALSE]

NoUpdate(sets, message) ==
    [sets |-> sets, calls |-> << >>, undefined |-> FALSE, log |-> << message >>]

Updated(r) == [sets |-> r.sets, calls |-> r.calls, undefined |-> r.undefined, log |-> << >>]

\* An image update that does not look at isPushConstant.
SetImageAnyBinding(sets, binding, frameIndex, image) ==
    Updated(UpdateDescriptorSets(sets, frameIndex, binding, ImageDescriptor(binding, image)))

\* The body of SetParameter(frameIndex, name, Image*) after the lookup.
SetImage(sets, binding, frameIndex, image) ==
    IF binding.isPushConstant
    THEN NoUpdate(sets, << "warn", "Push constants can't contain images" >>)
    ELSE Updated(UpdateDescriptorSets(sets, frameIndex, binding, ImageDescriptor(binding, image)))

\* The body of SetParameter(frameIndex, name, Buffer*) after the lookup.
SetBuffer(sets, binding, frameIndex, buffer) ==
    IF binding.isPushConstant
    THEN NoUpdate(sets, << "warn", "Push constants can't contain buffers" >>)
    ELSE IF binding.type # "STORAGE_BUFFER"
         THEN NoUpdate(sets, << "warn", "not a storage buffer" >>)
         ELSE Updated(UpdateDescriptorSets(sets, frameIndex, binding,
                                           BufferDescriptor(binding, buffer)))

\* One call of SetParameter with a resource handle.
SetParameterResource(op, frameIndex, name, resource) ==
    LET found == Lookup(shader.bindings, name)
        r     == IF ~found.found THEN NoUpdate(m_descriptorSets, Warning(name))
                 ELSE IF op = "image"
                      THEN SetImage(m_descriptorSets, found.binding, frameIndex, resource)
                      ELSE SetBuffer(m_descriptorSets, found.binding, frameIndex, resource)
    IN  /\ lastCall' = [op |-> op, frameIndex |-> frameIndex, name |-> name,
                        value |-> resource, esz |-> 0, data |-> << >>, junk |-> 0]
        /\ nCalls' = nCalls + 1
        /\ m_descriptorSets' = r.sets
        /\ vkCalls' = r.calls
        /\ log' = r.log
        /\ status' = IF r.undefined THEN "undefined" ELSE "running"
        /\ UNCHANGED << shader, decl, m_uniformBuffers, m_pushConstantData, pipeline, renderer >>

\* SetParameter(frameIndex, name, Image* image)
SetParameterImage ==
    /\ CanCall
    /\ \E frameIndex \in Frames, name \in Names, image \in Images :
          SetParameterResource("image", frameIndex, name, image)

\* SetParameter(frameIndex, name, Buffer* buffer)
SetParameterBuffer ==
    /\ CanCall
    /\ \E frameIndex \in Frames, name \in Names, buffer \in Buffers :
          SetParameterResource("buffer", frameIndex, name, buffer)

(***************************************************************************)
(* The Shader under SetParameter calls.                                    *)
(***************************************************************************)
Init ==
    /\ ShaderInit
    /\ log = << >>
    /\ vkCalls = << >>
    /\ status = "running"
    /\ lastCall = NoCall
    /\ nCalls = 0
    /\ pipeline = NoPipeline
    /\ renderer = NoRenderer

Next ==
    \/ SetParameterScalar
    \/ SetParameterVector
    \/ SetParameterBool
    \/ SetParameterVectorBool
    \/ SetParameterImage
    \/ SetParameterBuffer

Spec == Init /\ [][Next]_vars

(***************************************************************************)
(* What the last call was about.                                           *)
(***************************************************************************)
DataOps == {"scalar", "vector", "bool", "vectorBool"}

VectorOps == {"vector", "vectorBool"}

ResourceOps == {"image", "buffer"}

\* The last call named a binding of the table.
Resolved == lastCall.op # "none" /\ lastCall.name \in DOMAIN shader.bindings

Target == shader.bindings[lastCall.name]

\* The backing store the last data call addressed.
TargetStore ==
    IF Target.isPushConstant THEN m_pushConstantData
    ELSE m_uniformBuffers[lastCall.frameIndex + 1]

\* The value of the last call has the declared type of the field it names.
TypeMatches ==
    /\ lastCall.op \in DataOps
    /\ lastCall.name \in DOMAIN decl
    /\ LET d == decl[lastCall.name]
       IN  IF lastCall.op \in VectorOps
           THEN d.kind = "Array" /\ d.elemSize = lastCall.esz /\ d.count = Len(lastCall.data)
           ELSE d.kind = "Scalar" /\ d.elemSize = lastCall.esz

\* The step is a call that names a binding of the table.
StepResolved == lastCall'.name \in DOMAIN shader.bindings

StepTarget == shader.bindings[lastCall'.name]

\* The copies the data call of the step makes.
StepWrites ==
    IF lastCall'.op \in VectorOps
    THEN VectorWrites(StepTarget, lastCall'.esz, lastCall'.data, lastCall'.junk)
    ELSE ScalarWrites(StepTarget, lastCall'.data, lastCall'.junk)

(***************************************************************************)
(* Properties of SetParameter.                                             *)
(***************************************************************************)
\* C1: a SetParameter call with a scalar or an array value that names a
\* uniform-buffer binding and frame slot j leaves the uniform buffer of every
\* other frame slot k # j as it was.
C1_PerFrameIsolation ==
    [][(/\ lastCall'.op \in DataOps
        /\ StepResolved
        /\ StepTarget.type = "UNIFORM_BUFFER"
        /\ status' # "undefined")
       => /\ Len(m_uniformBuffers') = Len(m_uniformBuffers)
          /\ \A k \in Frames \ {lastCall'.frameIndex} :
                m_uniformBuffers'[k + 1] = m_uniformBuffers[k + 1]]_vars

\* An array was written to frame slot 1 after a write to frame slot 0, and
\* the two buffers differ.
C1_Witness ==
    /\ nCalls = 2
    /\ lastCall.op = "vector"
    /\ lastCall.frameIndex = 1
    /\ Resolved
    /\ Target.type = "UNIFORM_BUFFER"
    /\ status = "running"
    /\ Slice(m_uniformBuffers[2], Target.offset, 4) = << 255, 0, 0, 0 >>
    /\ m_uniformBuffers[1] # m_uniformBuffers[2]
    /\ \E i \in 1 .. Len(m_uniformBuffers[1]) : m_uniformBuffers[1][i] \notin UninitFill

\* C2: after a completed SetParameter call whose value has the declared type
\* of the field, the bytes of the backing store at the binding's offset are
\* the bytes of the value: element i at offset + i * stride for an array
\* whose stride exceeds the element size, the elements back to back
\* otherwise.
C2_RoundTrip ==
    (TypeMatches /\ Resolved /\ status = "running")
    => IF lastCall.op \in VectorOps
       THEN IF Target.stride > lastCall.esz
            THEN \A i \in 1 .. Len(lastCall.data) :
                    Slice(TargetStore, Target.offset + (i - 1) * Target.stride, lastCall.esz)
                        = lastCall.data[i]
            ELSE Slice(TargetStore, Target.offset, lastCall.esz * Len(lastCall.data))
                    = Flatten(lastCall.data)
       ELSE Slice(TargetStore, Target.offset, lastCall.esz) = lastCall.data

\* C3: a SetParameter call of any overload with a name that is not in the
\* binding table logs the warning, changes no uniform buffer, no staging
\* byte and no descriptor table, issues no Vulkan call and returns.
C3_UnknownNameNoOp ==
    [][(~StepResolved)
       => /\ log' = << Warning(lastCall'.name) >>
          /\ m_uniformBuffers' = m_uniformBuffers
          /\ m_pushConstantData' = m_pushConstantData
          /\ m_descriptorSets' = m_descriptorSets
          /\ vkCalls' = << >>
          /\ status' = "running"]_vars

\* A Buffer overload call with an unknown name returned with the warning,
\* after an earlier call.
C3_Witness ==
    /\ nCalls = 2
    /\ lastCall.op = "buffer"
    /\ lastCall.name = UnknownName
    /\ log = << Warning(UnknownName) >>
    /\ status = "running"

ImageKinds == {"COMBINED_IMAGE_SAMPLER", "SAMPLED_IMAGE", "STORAGE_IMAGE"}

\* The kind of the handle of the last resource call is the kind the binding
\* records.
KindMatches ==
    IF lastCall.op = "image" THEN Target.type \in ImageKinds
    ELSE Target.type = "STORAGE_BUFFER"

\* C4: a SetParameter call with a Buffer or an Image handle issues a
\* descriptor update only when the binding's recorded kind is the kind of
\* the handle; on a mismatch it logs a warning and issues no update.
C4_KindChecked ==
    (lastCall.op \in ResourceOps /\ Resolved)
    => IF KindMatches
       THEN status = "running" => Len(vkCalls) = 1
       ELSE vkCalls = << >> /\ log # << >>

\* C5: a SetParameter call with an Image or a Buffer handle that names a
\* push-constant binding logs a warning, leaves the staging bytes and every
\* descriptor table as they were, and issues no Vulkan call.
C5_PushConstantRejectsResource ==
    [][(lastCall'.op \in ResourceOps /\ StepResolved /\ StepTarget.isPushConstant)
       => /\ log' \in {<< << "warn", "Push constants can't contain images" >> >>,
                       << << "warn", "Push constants can't contain buffers" >> >>}
          /\ m_pushConstantData' = m_pushConstantData
          /\ m_descriptorSets' = m_descriptorSets
          /\ vkCalls' = << >>
          /\ status' = "running"]_vars

\* An Image was given to a push-constant binding after the staging buffer
\* had been written.
C5_Witness ==
    /\ lastCall.op = "image"
    /\ Resolved
    /\ Target.isPushConstant
    /\ log = << << "warn", "Push constants can't contain images" >> >>
    /\ \E i \in 1 .. Len(m_pushConstantData) : m_pushConstantData[i] # 0

\* C6: a SetParameter call with plain data that names a push-constant
\* binding leaves every uniform buffer as it was, and the staging bytes it
\* produces are those the same call produces with any other frame slot.
C6_PushConstantFrameIndependent ==
    [][(/\ lastCall'.op \in DataOps
        /\ StepResolved
        /\ StepTarget.isPushConstant
        /\ status' = "running")
       => /\ m_uniformBuffers' = m_uniformBuffers
          /\ \A f \in Frames :
                LET r == StoreWrites(m_uniformBuffers, m_pushConstantData, StepTarget, f,
                                     StepWrites)
                IN  ~r.undefined /\ ~r.aborted /\ r.pc = m_pushConstantData'
                    /\ r.ub = m_uniformBuffers]_vars

\* A scalar was written to a push-constant binding with frame slot 1 and
\* the staging buffer holds it.
C6_Witness ==
    /\ lastCall.op = "scalar"
    /\ lastCall.frameIndex = 1
    /\ Resolved
    /\ Target.isPushConstant
    /\ status = "running"
    /\ lastCall.esz = Target.size
    /\ Slice(m_pushConstantData, Target.offset, Target.size) = lastCall.data

\* The four bytes of the 32-bit integer a bool is normalised to.
BoolImage(b) == << IF b THEN 1 ELSE 0, 0, 0, 0 >>

\* Element i of the vector<bool> of the last call has four bytes of its own
\* in the store after the call: the contiguous copy stops at the binding's
\* size, and with a stride under four bytes a later element overwrites it.
BoolPlaced(i) ==
    IF Target.stride = 4 THEN 4 * i <= Target.size
    ELSE Target.stride >= 4 \/ i = Len(lastCall.value)

PipelineTypes == {"GRAPHICS", "COMPUTE", "RAYTRACING"}

\* The stage lists handed to the constructor.
StageLists ==
    { << >>,
      << "COMPUTE" >>,
      << "VERTEX", "FRAGMENT" >>,
      << "RAYGEN", "MISS" >>,
      << "RAYGEN", "MISS", "CLOSEST_HIT" >>,
      << "RAYGEN", "CLOSEST_HIT", "MISS" >>,
      << "MISS", "RAYGEN", "CLOSEST_HIT" >>,
      << "MISS", "CLOSEST_HIT", "RAYGEN" >>,
      << "CLOSEST_HIT", "RAYGEN", "MISS" >>,
      << "CLOSEST_HIT", "MISS", "RAYGEN" >>,
      << "RAYGEN", "MISS", "MISS" >>,
      << "RAYGEN", "MISS", "ANY_HIT" >> }

\* The layout builders a shader may come with: none, a uniform buffer at
\* set 0 slot 0, and that with an acceleration structure at set 1 slot 0.
NoBindings == EmptyShader.builders

CameraOnly == [NoBindings EXCEPT ![0] = AddBinding(<< >>, 0, "UNIFORM_BUFFER", 1)]

CameraAndScene ==
    [CameraOnly EXCEPT ![1] = AddBinding(<< >>, 0, "ACCELERATION_STRUCTURE_KHR", 1)]

BuilderChoices == {NoBindings, CameraOnly, CameraAndScene}

\* The results the driver may report: success, an error, and the result of
\* a call that a validation layer refused.
VkResults == {"VK_SUCCESS", "VK_ERROR_OUT_OF_HOST_MEMORY", "VK_ERROR_VALIDATION_FAILED_EXT"}

VkCallNames ==
    {"vkCreateDescriptorSetLayout", "vkAllocateDescriptorSets", "vkCreatePipelineLayout",
     "vkCreatePipelines", "vkGetRayTracingShaderGroupHandlesKHR"}

\* An empty std::shared_ptr<Shader>.
NoShader == [id |-> "null"]

\* VK_NULL_HANDLE, and a buffer that is not allocated.
NoObject == [created |-> FALSE]

\* A check that lets every result through.
VkCheckNothing(result) == TRUE

\* VK_CHECK: does the result let the program go on?
VK_CHECK(result) == ~(result # "VK_SUCCESS" /\ result # "VK_ERROR_VALIDATION_FAILED_EXT")

\* A Vulkan call under VK_CHECK: the call is made, a result that fails the
\* check is logged and the program aborts.
VkCall(p, call, result) ==
    LET q == [p EXCEPT !.calls = Append(@, [call |-> call, result |-> result])]
    IN  IF VK_CHECK(result) THEN q
        ELSE [q EXCEPT !.state = "aborted", !.log = Append(@, << "error", result, call >>)]

\* A failed assert: the message, then abort.
AssertFailed(p, message) ==
    [p EXCEPT !.state = "aborted", !.log = Append(@, << "assert", message >>)]

\* The errors operator+= logs: one for every entry whose slot an earlier
\* entry has.
RECURSIVE DuplicateErrors(_, _)
DuplicateErrors(bindings, i) ==
    IF i > Len(bindings) THEN << >>
    ELSE (IF \E j \in 1 .. (i - 1) : bindings[j].binding = bindings[i].binding
          THEN << << "error", "Same binding defined in multiple shaders",
                     bindings[i].binding >> >>
          ELSE << >>) \o DuplicateErrors(bindings, i + 1)

\* A merge that turns away a declaration whose slot is already taken.
PlusEqRejecting(bindings, other) ==
    [bindings |-> bindings \o
                  SelectSeq(other, LAMBDA b : \A j \in 1 .. Len(bindings) :
                                                 bindings[j].binding # b.binding),
     log |-> DuplicateErrors(bindings \o other, 1)]

\* DescriptorSetLayoutBuilder::operator+=
PlusEq(bindings, other) ==
    [bindings |-> bindings \o other, log |-> DuplicateErrors(bindings \o other, 1)]

\* The merge loops of Pipeline::CreateDescriptors, from shader k and
\* builder i; a null shader is dereferenced.
RECURSIVE MergeBuilders(_, _, _)
MergeBuilders(p, k, i) ==
    IF k > Len(p.m_shaders) THEN p
    ELSE IF p.m_shaders[k] = NoShader THEN [p EXCEPT !.state = "undefined"]
    ELSE IF i >= NumLayoutBuilders THEN MergeBuilders(p, k + 1, 0)
    ELSE LET r == PlusEq(p.builders[i], p.m_shaders[k].m_descriptorLayoutBuilders[i])
         IN  MergeBuilders([p EXCEPT !.builders[i] = r.bindings, !.log = @ \o r.log], k, i + 1)

\* DescriptorSetLayoutBuilder::Build: the layout of the builder.
BuiltLayout(bindings, result) ==
    [bindings |-> [j \in 1 .. Len(bindings) |->
                     [binding |-> bindings[j].binding,
                      descriptorType |-> bindings[j].descriptorType,
                      descriptorCount |-> bindings[j].descriptorCount,
                      stageFlags |-> "ALL"]],
     created  |-> result = "VK_SUCCESS"]

\* A layout for every one of the builders, the empty ones too.
BuildEveryLayout(p, results, i) ==
    [p EXCEPT !.m_descriptorLayouts =
        [l \in 1 .. NumLayoutBuilders |-> BuiltLayout(p.builders[l - 1], "VK_SUCCESS")]]

\* The loop of Pipeline::CreateDescriptors that builds the non-empty
\* builders, from builder i.
RECURSIVE BuildPipelineLayouts(_, _, _)
BuildPipelineLayouts(p, results, i) ==
    IF i >= NumLayoutBuilders \/ p.state # "running" THEN p
    ELSE IF p.builders[i] = << >> THEN BuildPipelineLayouts(p, results, i + 1)
    ELSE LET result == results["vkCreateDescriptorSetLayout"]
             q      == VkCall(p, "vkCreateDescriptorSetLayout", result)
         IN  IF q.state # "running" THEN q
             ELSE BuildPipelineLayouts(
                    [q EXCEPT !.m_descriptorLayouts = Append(@, BuiltLayout(p.builders[i], result))],
                    results, i + 1)

\* Tables for the first frame slot only.
AllocateFirstFrameOnly(p, results, f) ==
    [p EXCEPT !.m_descriptorSets =
        << [l \in 1 .. Len(p.m_descriptorLayouts) |-> [layout |-> l, allocated |-> TRUE]] >>]

\* The allocation loop of Pipeline::CreateDescriptors, from frame slot f.
RECURSIVE AllocateDescriptorSets(_, _, _)
AllocateDescriptorSets(p, results, f) ==
    IF f >= MAX_FRAMES_IN_FLIGHT \/ p.state # "running" THEN p
    ELSE LET result == results["vkAllocateDescriptorSets"]
             q      == VkCall(p, "vkAllocateDescriptorSets", result)
             sets   == [l \in 1 .. Len(p.m_descriptorLayouts) |->
                          [layout |-> l, allocated |-> result = "VK_SUCCESS"]]
         IN  IF q.state # "running" THEN q
             ELSE AllocateDescriptorSets([q EXCEPT !.m_descriptorSets = Append(@, sets)],
                                         results, f + 1)

\* Pipeline::CreateDescriptors
PipelineCreateDescriptors(p, results) ==
    LET merged == MergeBuilders(p, 1, 0)
        built  == BuildPipelineLayouts(merged, results, 0)
    IN  IF merged.state # "running" THEN merged
        ELSE IF built.state # "running" \/ built.m_descriptorLayouts = << >> THEN built
        ELSE AllocateDescriptorSets(built, results, 0)

\* The shaders a pipeline is made of: the stage, the layout builders and
\* the size of the push-constant range of each.
ShaderKinds ==
    { [m_descriptorLayoutBuilders |-> NoBindings, pushConstantSize |-> 0],
      [m_descriptorLayoutBuilders |-> CameraOnly, pushConstantSize |-> 16],
      [m_descriptorLayoutBuilders |-> CameraAndScene, pushConstantSize |-> 0] }

PipelineShader(id, stage, kind) ==
    [id |-> id, m_stage |-> stage,
     m_descriptorLayoutBuilders |-> kind.m_descriptorLayoutBuilders,
     m_pushConstantRange |-> [size |-> kind.pushConstantSize]]

\* The shader at the list position of the role, whatever its stage.
ByListPosition(shaders, stage) ==
    shaders[CASE stage = "RAYGEN" -> 1 [] stage = "MISS" -> 2 [] OTHER -> 3]

\* The slot loop of Setup: the last shader of the list with the stage, or
\* the null the resize left.
LastWithStage(shaders, stage) ==
    LET idx == {i \in 1 .. Len(shaders) : shaders[i].m_stage = stage}
    IN  IF idx = {} THEN NoShader
        ELSE shaders[CHOOSE i \in idx : \A j \in idx : j <= i]

\* The state of a Pipeline when Setup starts.
NewPipeline(type, shaders) ==
    [state |-> "running", type |-> type, shaders |-> shaders,
     m_shaders |-> [i \in 1 .. Len(shaders) |-> NoShader],
     builders |-> NoBindings,
     m_descriptorLayouts |-> << >>, m_descriptorSets |-> << >>,
     m_layout |-> NoObject, m_pipeline |-> NoObject, m_sbtBuffer |-> NoObject,
     modulesDestroyed |-> {}, calls |-> << >>, log |-> << >>]

\* The switch of Setup that fills m_shaders.
AssignShaders(p) ==
    CASE p.type = "GRAPHICS" -> AssertFailed(p, "Graphics pipelines not yet supported")
      [] p.type = "COMPUTE" ->
            IF Len(p.shaders) # 1 THEN AssertFailed(p, "m_createInfo.shaders.size() == 1")
            ELSE [p EXCEPT !.m_shaders[1] = p.shaders[1]]
      [] OTHER ->
            IF Len(p.shaders) # 3 THEN AssertFailed(p, "m_createInfo.shaders.size() == 3")
            ELSE [p EXCEPT !.m_shaders =
                    << LastWithStage(p.shaders, "RAYGEN"), LastWithStage(p.shaders, "MISS"),
                       LastWithStage(p.shaders, "CLOSEST_HIT") >>]

\* A check of m_shaders that accepts empty slots.
AcceptsEmptySlots(m_shaders) == TRUE

\* The condition of the assert on every slot of m_shaders.
AllShadersPresent(m_shaders) == \A i \in 1 .. Len(m_shaders) : m_shaders[i] # NoShader

CheckShaders(p) ==
    IF p.state # "running" \/ AllShadersPresent(p.m_shaders) THEN p
    ELSE AssertFailed(p, "Pipeline is missing some shaders")

\* The push-constant ranges CreateRaytracingPipeline collects.
RECURSIVE PushConstantRanges(_, _)
PushConstantRanges(m_shaders, k) ==
    IF k > Len(m_shaders) THEN << >>
    ELSE (IF m_shaders[k].m_pushConstantRange.size > 0
          THEN << m_shaders[k].m_pushConstantRange >> ELSE << >>)
         \o PushConstantRanges(m_shaders, k + 1)

\* vkCreatePipelineLayout and the pipeline creation call, each under
\* VK_CHECK.
CreateLayoutAndPipeline(p, results, ranges) ==
    LET r1 == results["vkCreatePipelineLayout"]
        p1 == VkCall(p, "vkCreatePipelineLayout", r1)
        p2 == [p1 EXCEPT !.m_layout = [created |-> r1 = "VK_SUCCESS",
                                       setLayoutCount |-> Len(p.m_descriptorLayouts),
                                       pushConstantRanges |-> ranges]]
        r2 == results["vkCreatePipelines"]
        p3 == VkCall(p2, "vkCreatePipelines", r2)
    IN  IF p1.state # "running" THEN p1
        ELSE IF p3.state # "running" THEN p3
        ELSE [p3 EXCEPT !.m_pipeline =
                [created |-> r2 = "VK_SUCCESS",
                 stages  |-> [k \in 1 .. Len(p.m_shaders) |-> p.m_shaders[k].m_stage]]]

\* Pipeline::CreateComputePipeline
CreateComputePipeline(p, results) ==
    CreateLayoutAndPipeline(p, results,
        IF p.m_shaders[1].m_pushConstantRange.size > 0
        THEN << p.m_shaders[1].m_pushConstantRange >> ELSE << >>)

\* Pipeline::CreateRaytracingPipeline: the layout and the pipeline, then
\* the group handles and the shader binding table.
CreateRaytracingPipeline(p, results) ==
    LET p1 == CreateLayoutAndPipeline(p, results, PushConstantRanges(p.m_shaders, 1))
        p2 == VkCall(p1, "vkGetRayTracingShaderGroupHandlesKHR",
                     results["vkGetRayTracingShaderGroupHandlesKHR"])
    IN  IF p1.state # "running" THEN p1
        ELSE IF p2.state # "running" THEN p2
        ELSE [p2 EXCEPT !.m_sbtBuffer = [created |-> TRUE, groups |-> << "raygen", "miss", "closestHit" >>]]

\* The loop of Setup that destroys the shader modules.
DestroyShaderModules(p) ==
    IF p.state # "running" THEN p
    ELSE [p EXCEPT !.modulesDestroyed = {p.m_shaders[k].id : k \in 1 .. Len(p.m_shaders)},
                   !.state = "constructed"]

\* Pipeline::Setup.  Shader::Finalize is called between CreateDescriptors
\* and the pipeline creation; it creates none of the objects of the
\* Pipeline.
Setup(type, shaders, results) ==
    LET p1 == CheckShaders(AssignShaders(NewPipeline(type, shaders)))
        p2 == IF p1.state # "running" THEN p1 ELSE PipelineCreateDescriptors(p1, results)
        p3 == IF p2.state # "running" THEN p2
              ELSE IF type = "COMPUTE" THEN CreateComputePipeline(p2, results)
              ELSE CreateRaytracingPipeline(p2, results)
    IN  DestroyShaderModules(p3)

\* Pipeline::Pipeline(shaderName, createInfo)
PipelineSetup ==
    /\ pipeline = NoPipeline
    /\ \E type \in PipelineTypes, stages \in StageLists, results \in [VkCallNames -> VkResults] :
          \E kinds \in [1 .. Len(stages) -> ShaderKinds] :
             LET shaders == [k \in 1 .. Len(stages) |-> PipelineShader(k, stages[k], kinds[k])]
                 p       == Setup(type, shaders, results)
             IN  /\ pipeline' = p
                 /\ log' = p.log
                 /\ vkCalls' = p.calls
                 /\ status' = IF p.state = "constructed" THEN "running" ELSE p.state
                 /\ lastCall' = [op |-> "Setup", results |-> results]
                 /\ nCalls' = nCalls + 1
                 /\ UNCHANGED shaderVars
                 /\ UNCHANGED renderer

InitPipeline ==
    /\ shader = EmptyShader
    /\ decl = << >>
    /\ m_uniformBuffers = << >>
    /\ m_pushConstantData = << >>
    /\ m_descriptorSets = << >>
    /\ log = << >>
    /\ vkCalls = << >>
    /\ status = "running"
    /\ lastCall = NoCall
    /\ nCalls = 0
    /\ pipeline = NoPipeline
    /\ renderer = NoRenderer

NextPipeline == PipelineSetup

SpecPipeline == InitPipeline /\ [][NextPipeline]_vars

(***************************************************************************)
(* Properties of the construction of a Pipeline.                           *)
(***************************************************************************)
Constructing == pipeline # NoPipeline

StagesGiven == {pipeline.shaders[k].m_stage : k \in 1 .. Len(pipeline.shaders)}

\* C8: a descriptor layout of the pipeline has one entry for a slot that
\* its stages declare alike, with the same kind and count: no two entries
\* of a layout are the same declaration.
C8_MergedOnce ==
    Constructing
    => \A l \in 1 .. Len(pipeline.m_descriptorLayouts) :
          LET entries == pipeline.m_descriptorLayouts[l].bindings
          IN  \A a \in 1 .. Len(entries), b \in 1 .. Len(entries) :
                 (entries[a] = entries[b]) => a = b

\* C9: the construction of a ray-tracing pipeline from a stage list with no
\* closest-hit stage aborts on a failed assertion, and has made no Vulkan
\* call and holds no descriptor layout, descriptor set, pipeline layout or
\* pipeline by then.
C9_MissingClosestHitFailsFirst ==
    (Constructing /\ pipeline.type = "RAYTRACING" /\ "CLOSEST_HIT" \notin StagesGiven)
    => /\ pipeline.state = "aborted"
       /\ pipeline.log # << >>
       /\ pipeline.log[Len(pipeline.log)][1] = "assert"
       /\ pipeline.calls = << >>
       /\ pipeline.m_descriptorLayouts = << >>
       /\ pipeline.m_descriptorSets = << >>
       /\ pipeline.m_layout = NoObject
       /\ pipeline.m_pipeline = NoObject

\* Three stages with descriptors of their own and a driver that reports
\* success for every call, but an any-hit stage in the place of the
\* closest-hit one: the slot assertion stopped the construction.
C9_Witness ==
    /\ Constructing
    /\ pipeline.type = "RAYTRACING"
    /\ StagesGiven = {"RAYGEN", "MISS", "ANY_HIT"}
    /\ \A k \in 1 .. 3 : pipeline.shaders[k].m_descriptorLayoutBuilders = CameraAndScene
    /\ \A c \in VkCallNames : lastCall.results[c] = "VK_SUCCESS"
    /\ pipeline.state = "aborted"
    /\ pipeline.log = << << "assert", "Pipeline is missing some shaders" >> >>

\* A role that the type of the pipeline requires has no stage in the list.
MissingRole ==
    CASE pipeline.type = "RAYTRACING" -> ~({"RAYGEN", "MISS", "CLOSEST_HIT"} \subseteq StagesGiven)
      [] pipeline.type = "COMPUTE" -> pipeline.shaders = << >>
      [] OTHER -> ~({"VERTEX", "FRAGMENT"} \subseteq StagesGiven)

\* C10: a construction in which a Vulkan call reported a result other than
\* success, or for which a required role is missing, aborts: it does not
\* end with a constructed Pipeline.
C10_AllOrNothing ==
    (Constructing /\ (MissingRole \/ \E i \in 1 .. Len(pipeline.calls) :
                                        pipeline.calls[i].result # "VK_SUCCESS"))
    => pipeline.state = "aborted"

(***************************************************************************)
(* Reflection of a family of layouts: up to MaxBuffers constant buffers    *)
(* "buf1", "buf2", ... at slots 0, 1, ... of set 0 and up to              *)
(* MaxPushConstantBlocks push-constant blocks "pc1", "pc2", ... at ranges  *)
(* 0, 1, ...                                                               *)
(***************************************************************************)
MaxBuffers == 2

MaxPushConstantBlocks == 2

Field(name, byteOffset, type) == VarLayout(name, byteOffset, ZeroOffset, type)

\* struct { uint a; uint64_t b; }
ShapeFlat ==
    StructType(16, << Field("a", 0, ScalarType(4)), Field("b", 8, ScalarType(8)) >>, << >>, << >>)

\* struct { struct { uint x; uint y; } inner; uint z; }
ShapeNested ==
    StructType(32,
        << Field("inner", 0, StructType(16, << Field("x", 0, ScalarType(4)),
                                               Field("y", 4, ScalarType(4)) >>, << >>, << >>)),
           Field("z", 16, ScalarType(4)) >>, << >>, << >>)

\* struct { float near; struct { float4x4 viewProj; struct { float fov; } lens; } camera; }
ShapeDeep ==
    StructType(96,
        << Field("near", 0, ScalarType(4)),
           Field("camera", 16,
                 StructType(80, << Field("viewProj", 0, ScalarType(64)),
                                   Field("lens", 64,
                                         StructType(16, << Field("fov", 0, ScalarType(4)) >>,
                                                    << >>, << >>)) >>, << >>, << >>)) >>,
        << >>, << >>)

\* struct { uint arr[2]; uint s; } with std140 padding of the array
ShapeArray ==
    StructType(48, << Field("arr", 0, ArrayType(4, 2, 16)), Field("s", 32, ScalarType(4)) >>,
               << >>, << >>)

BufferShapes == {ShapeFlat, ShapeNested, ShapeDeep, ShapeArray}

\* struct { bool lit; }
PushSmall == StructType(4, << Field("lit", 0, ScalarType(4)) >>, << >>, << >>)

\* struct { uint id; struct { uint w; uint h; } ext; }
PushNested ==
    StructType(16,
        << Field("id", 0, ScalarType(4)),
           Field("ext", 8, StructType(8, << Field("w", 0, ScalarType(4)),
                                            Field("h", 4, ScalarType(4)) >>, << >>, << >>)) >>,
        << >>, << >>)

PushShapes == {PushSmall, PushNested}

BufferName(i) == << "buf1", "buf2", "buf3" >>[i]

PushName(j) == << "pc1", "pc2", "pc3" >>[j]

\* The program layout with the constant buffers of shapes and the
\* push-constant blocks of pushes as global parameters.
FamilyLayout(shapes, pushes) ==
    [globals |->
        Anonymous(StructType(0, << >>, << >>,
            [i \in 1 .. Len(shapes) |->
                SubObject("ConstantBuffer", BufferName(i), MkOffset(0, i - 1, 0, 0),
                          ZeroOffset, 0, Anonymous(shapes[i]))]
            \o
            [j \in 1 .. Len(pushes) |->
                SubObject("PushConstant", PushName(j), MkOffset(0, 0, j - 1, 0),
                          ZeroOffset, 0, Anonymous(pushes[j]))])),
     entryPoint |-> VarLayout("main", 0, ZeroOffset, StructType(0, << >>, << >>, << >>))]

SeqsUpTo(S, n) == UNION {[1 .. k -> S] : k \in 0 .. n}

\* The wrapped types of a ConstantBuffer<X> or ParameterBlock<X> named
\* "mat": X with data only, X with a texture only (no uniform footprint),
\* and X with both.
ElementData == ShapeFlat

ElementResource ==
    StructType(0, << >>, << ResourceRange("Texture", "albedo", 0, 1) >>, << >>)

ElementMixed ==
    StructType(16, << Field("a", 0, ScalarType(4)), Field("b", 8, ScalarType(8)) >>,
               << ResourceRange("Texture", "albedo", 0, 1) >>, << >>)

WrapperElements == {ElementData, ElementResource, ElementMixed}

WrapperKinds == {"ConstantBuffer", "ParameterBlock"}

\* The descriptor sets a wrapper may be declared in.
WrapperSets == {0, 1}

\* The resources at the global scope next to the wrapper: none, a storage
\* image "img" at slot 4, and a storage image whose binding range has no
\* leaf variable.
RootResources ==
    { << >>,
      << ResourceRange("MutableTexture", "img", 4, 1) >>,
      << ResourceRange("MutableTexture", NULL, 4, 1) >> }

\* A program with one wrapper "mat" in the given set.  The set of a
\* ConstantBuffer is its descriptor-table space, the set of a
\* ParameterBlock its sub-element register space; the resources of the
\* element of a ConstantBuffer with data come after the buffer's slot.
WrapperLayout(kind, element, set, root) ==
    [globals |->
        Anonymous(StructType(0, << >>, root,
           << SubObject(kind, "mat",
                 IF kind = "ParameterBlock" THEN MkOffset(0, 0, 0, set)
                                            ELSE MkOffset(set, 0, 0, 0),
                 ZeroOffset, 0,
                 VarLayout(NULL, 0,
                           IF kind = "ConstantBuffer" /\ element.size > 0
                           THEN MkOffset(0, 1, 0, 0) ELSE ZeroOffset,
                           element)) >>)),
     entryPoint |-> VarLayout("main", 0, ZeroOffset, StructType(0, << >>, << >>, << >>))]

WrapperLayouts ==
    {WrapperLayout(kind, element, set, root) :
        kind \in WrapperKinds, element \in WrapperElements,
        set \in WrapperSets, root \in RootResources}

ReflectLayouts ==
    {FamilyLayout(shapes, pushes) :
        shapes \in SeqsUpTo(BufferShapes, MaxBuffers) \ {<< >>},
        pushes \in SeqsUpTo(PushShapes, MaxPushConstantBlocks)}
    \cup WrapperLayouts

\* Before the constructor of a Shader reflects the compiled program.
InitReflect ==
    /\ shader = EmptyShader
    /\ decl = << >>
    /\ m_uniformBuffers = << >>
    /\ m_pushConstantData = << >>
    /\ m_descriptorSets = << >>
    /\ log = << >>
    /\ vkCalls = << >>
    /\ status = "running"
    /\ \E layout \in ReflectLayouts : lastCall = [op |-> "Compile", layout |-> layout]
    /\ nCalls = 0
    /\ pipeline = NoPipeline
    /\ renderer = NoRenderer

\* Shader::Compile calls Reflect on the program layout.
ShaderReflect ==
    /\ lastCall.op = "Compile"
    /\ shader' = Reflect(lastCall.layout)
    /\ decl' = Declared(lastCall.layout)
    /\ lastCall' = [lastCall EXCEPT !.op = "Reflect"]
    /\ status' = IF shader'.undefined THEN "undefined" ELSE "running"
    /\ nCalls' = nCalls + 1
    /\ UNCHANGED << m_uniformBuffers, m_pushConstantData, m_descriptorSets, log, vkCalls,
                    pipeline, renderer >>

\* The rest of Shader::Shader after Compile: CreateDescriptors, the uniform
\* buffers, and the loops that point every frame slot's table at the
\* slot's uniform buffer.
ShaderConstruct ==
    /\ lastCall.op = "Reflect"
    /\ status = "running"
    /\ \E fill \in UninitFill :
          LET bound == BindUniformBuffers(CreateDescriptors(shader),
                                          shader.uniformBufferInfos, 0, 1)
          IN  /\ m_descriptorSets' = bound.sets
              /\ m_uniformBuffers' = CreateUniformBuffers(shader, fill)
              /\ status' = IF bound.undefined THEN "undefined" ELSE "running"
    /\ lastCall' = [lastCall EXCEPT !.op = "Construct"]
    /\ nCalls' = nCalls + 1
    /\ UNCHANGED << shader, decl, m_pushConstantData, log, vkCalls, pipeline, renderer >>

NextReflect == ShaderReflect \/ ShaderConstruct

SpecReflect == InitReflect /\ [][NextReflect]_vars

(***************************************************************************)
(* Properties of the reflection table.                                     *)
(***************************************************************************)
Reflected == lastCall.op = "Reflect" /\ status = "running"

\* The names of the uniform Bindings: the data fields of constant buffers.
UniformNames ==
    {n \in DOMAIN shader.bindings :
        /\ shader.bindings[n].type = "UNIFORM_BUFFER"
        /\ ~shader.bindings[n].isPushConstant
        /\ shader.bindings[n].size > 0}

RECURSIVE SumBindingSizes(_)
SumBindingSizes(names) ==
    IF names = {} THEN 0
    ELSE LET n == CHOOSE x \in names : TRUE
         IN  shader.bindings[n].size + SumBindingSizes(names \ {n})

\* The byte ranges of two Bindings have a byte in common.
Overlap(a, b) == a.offset < b.offset + b.size /\ b.offset < a.offset + a.size

\* C11: after reflection the sizes of the uniform Bindings add up to at
\* most the aggregate uniform-buffer size, and no two uniform Bindings
\* have a byte of the aggregate buffer in common.
C11_UniformRangesDisjoint ==
    Reflected
    => /\ SumBindingSizes(UniformNames) <= shader.uniformBufferSize
       /\ \A a \in UniformNames, b \in UniformNames :
             a # b => ~Overlap(shader.bindings[a], shader.bindings[b])

\* The data fields of a struct by dot-joined path, each with its size and
\* with base plus the intrinsic offsets of the fields on its path.
RECURSIVE ExpectedFields(_, _, _, _)
ExpectedFields(fields, i, path, base) ==
    IF i > Len(fields) THEN << >>
    ELSE LET field == fields[i]
             name  == Append(path, field.name)
             here  == IF field.type.kind = "Struct"
                      THEN ExpectedFields(field.type.fields, 1, name, base + field.offset)
                      ELSE (name :> [offset |-> base + field.offset, size |-> field.type.size])
         IN  here @@ ExpectedFields(fields, i + 1, path, base)

\* The data fields of the constant buffers from sub-object k on, the region
\* of a buffer starting where the regions of the buffers before it end.
RECURSIVE ExpectedBuffers(_, _, _)
ExpectedBuffers(subs, k, start) ==
    IF k > Len(subs) THEN << >>
    ELSE IF subs[k].type # "ConstantBuffer" THEN ExpectedBuffers(subs, k + 1, start)
    ELSE ExpectedFields(subs[k].element.type.fields, 1, << subs[k].leafName >>, start)
         @@ ExpectedBuffers(subs, k + 1, start + subs[k].element.type.size)

\* C12: every data field reached through nested structs inside a constant
\* buffer has a Binding under its dot-joined path, of the field's size, at
\* the start of the buffer's region plus the intrinsic offsets of the
\* fields on the path.
C12_NestedFieldOffsets ==
    Reflected
    => LET expected == ExpectedBuffers(lastCall.layout.globals.type.subs, 1, 0)
       IN  \A n \in DOMAIN expected :
              /\ n \in DOMAIN shader.bindings
              /\ shader.bindings[n].size = expected[n].size
              /\ shader.bindings[n].offset = expected[n].offset

\* The push-constant sub-objects of the global scope, in declaration order.
PushConstantSubs ==
    SelectSeq(lastCall.layout.globals.type.subs, LAMBDA sub : sub.type = "PushConstant")

\* The sizes of the ranges before range i (1-based) added up.
RECURSIVE RangeStart(_)
RangeStart(i) ==
    IF i <= 1 THEN 0
    ELSE RangeStart(i - 1) + shader.pushConstants[i - 1].size

\* The Bindings of the data fields of push-constant range i (1-based).
RangeBindings(i) ==
    {n \in DOMAIN shader.bindings :
        shader.bindings[n].isPushConstant /\ shader.bindings[n].set = i - 1}

\* C19: after reflection range i starts at the sum of the sizes of the
\* ranges before it; every push-constant Binding of range i is its
\* intrinsic offset shifted by that start and lies inside the range; and
\* no two ranges have a byte in common.
C19_PushConstantRangesConcatenated ==
    Reflected
    => /\ Len(shader.pushConstants) = Len(PushConstantSubs)
       /\ \A i \in 1 .. Len(shader.pushConstants) :
             LET range    == shader.pushConstants[i]
                 sub      == PushConstantSubs[i]
                 unshifted == ExpectedFields(sub.element.type.fields, 1,
                                             << sub.leafName >>, 0)
             IN  /\ range.offset = RangeStart(i)
                 /\ range.size = sub.element.type.size
                 /\ RangeBindings(i) = DOMAIN unshifted
                 /\ \A n \in RangeBindings(i) :
                       /\ shader.bindings[n].offset = range.offset + unshifted[n].offset
                       /\ shader.bindings[n].offset >= range.offset
                       /\ shader.bindings[n].offset + shader.bindings[n].size
                             <= range.offset + range.size
       /\ \A i \in 1 .. Len(shader.pushConstants), j \in 1 .. Len(shader.pushConstants) :
             i # j => ~Overlap(shader.pushConstants[i], shader.pushConstants[j])

\* Two push-constant blocks were reflected, the second one with a nested
\* struct, and its Bindings sit behind the first range.
C19_Witness ==
    /\ Reflected
    /\ Len(shader.pushConstants) = 2
    /\ shader.pushConstants[2].offset > 0
    /\ \E n \in RangeBindings(2) :
          Len(n) = 3 /\ shader.bindings[n].offset > shader.pushConstants[2].offset

(***************************************************************************)
(* Properties of the descriptor layouts and tables of a pipeline.          *)
(***************************************************************************)
Assembled == pipeline.state = "constructed"

\* Setup got as far as CreateDescriptors: no assert failed before it.
Merged ==
    /\ pipeline.state # "none"
    /\ \A e \in 1 .. Len(pipeline.log) : pipeline.log[e][1] # "assert"

\* The declarations of all stages for set i, in stage order from stage k.
RECURSIVE StageDeclarations(_, _)
StageDeclarations(i, k) ==
    IF k > Len(pipeline.m_shaders) THEN << >>
    ELSE pipeline.m_shaders[k].m_descriptorLayoutBuilders[i] \o StageDeclarations(i, k + 1)

\* The set indices from i on in which some stage declares a binding.
RECURSIVE DeclaredSets(_)
DeclaredSets(i) ==
    IF i >= NumLayoutBuilders THEN << >>
    ELSE (IF StageDeclarations(i, 1) # << >> THEN << i >> ELSE << >>) \o DeclaredSets(i + 1)

CallsOf(name) == SelectSeq(pipeline.calls, LAMBDA c : c.call = name)

Declaration(b) == [binding |-> b.binding, descriptorType |-> b.descriptorType]

\* C15: an assembled pipeline has one descriptor layout for every set
\* index in which at least one stage declares a binding, made of those
\* declarations, and none for a set without bindings; a pipeline without
\* any binding allocates no descriptor tables.
C15_LayoutPerDeclaredSet ==
    Assembled
    => LET sets == DeclaredSets(0)
       IN  /\ Len(pipeline.m_descriptorLayouts) = Len(sets)
           /\ Len(CallsOf("vkCreateDescriptorSetLayout")) = Len(sets)
           /\ \A l \in 1 .. Len(sets) :
                 LET built    == pipeline.m_descriptorLayouts[l].bindings
                     declared == StageDeclarations(sets[l], 1)
                 IN  /\ built # << >>
                     /\ [j \in 1 .. Len(built) |-> Declaration(built[j])]
                           = [j \in 1 .. Len(declared) |-> Declaration(declared[j])]
           /\ sets = << >> => /\ pipeline.m_descriptorSets = << >>
                              /\ CallsOf("vkAllocateDescriptorSets") = << >>

\* A pipeline in which set 0 has bindings and set 1 has none, one of its
\* stages declaring nothing: one layout.
C15_Witness ==
    /\ Assembled
    /\ DeclaredSets(0) = << 0 >>
    /\ Len(pipeline.m_descriptorLayouts) = 1
    /\ \E k \in 1 .. Len(pipeline.m_shaders) :
          pipeline.m_shaders[k].m_descriptorLayoutBuilders = NoBindings

\* The descriptor tables of frame slot f.
TablesOf(f) ==
    IF f + 1 <= Len(pipeline.m_descriptorSets) THEN pipeline.m_descriptorSets[f + 1] ELSE << >>

\* C16: in an assembled pipeline every frame slot has as many descriptor
\* tables as there are descriptor layouts, table l for layout l, each
\* allocated when the driver reported success for the allocation.
C16_TablePerLayoutPerFrame ==
    Assembled
    => /\ Len(pipeline.m_descriptorSets) <= MAX_FRAMES_IN_FLIGHT
       /\ \A f \in Frames :
             /\ Len(TablesOf(f)) = Len(pipeline.m_descriptorLayouts)
             /\ \A l \in 1 .. Len(TablesOf(f)) :
                   /\ TablesOf(f)[l].layout = l
                   /\ lastCall.results["vkAllocateDescriptorSets"] = "VK_SUCCESS"
                         => TablesOf(f)[l].allocated

\* A pipeline with two layouts: two allocated tables in each frame slot.
C16_Witness ==
    /\ Assembled
    /\ Len(pipeline.m_descriptorLayouts) = 2
    /\ \A f \in Frames : /\ Len(TablesOf(f)) = 2
                         /\ \A l \in 1 .. 2 : TablesOf(f)[l].allocated

RaytracingRoles == << "RAYGEN", "MISS", "CLOSEST_HIT" >>

\* The constructor got a ray-tracing stage list with exactly one shader of
\* each role.
OneOfEachRole ==
    /\ pipeline.state # "none"
    /\ pipeline.type = "RAYTRACING"
    /\ Len(pipeline.shaders) = 3
    /\ \A r \in 1 .. 3 :
          Cardinality({k \in 1 .. 3 : pipeline.shaders[k].m_stage = RaytracingRoles[r]}) = 1

\* C17: a ray-tracing pipeline given one raygen, one miss and one
\* closest-hit shader in any list order has them in the slots raygen,
\* miss, closest-hit, and the pipeline object is created from the stages in
\* that order.
C17_CanonicalStageOrder ==
    OneOfEachRole
    => /\ \A r \in 1 .. 3 :
             /\ pipeline.m_shaders[r].m_stage = RaytracingRoles[r]
             /\ \E k \in 1 .. 3 : pipeline.shaders[k] = pipeline.m_shaders[r]
       /\ pipeline.m_pipeline.created => pipeline.m_pipeline.stages = RaytracingRoles

\* The list was closest-hit, miss, raygen, and the pipeline was created.
C17_Witness ==
    /\ OneOfEachRole
    /\ [k \in 1 .. 3 |-> pipeline.shaders[k].m_stage] = << "CLOSEST_HIT", "MISS", "RAYGEN" >>
    /\ Assembled
    /\ pipeline.m_pipeline.created

\* Two stages declare the same slot of set i.
Collision(i) ==
    \E k1 \in 1 .. Len(pipeline.m_shaders), k2 \in 1 .. Len(pipeline.m_shaders) :
       /\ k1 < k2
       /\ \E a \in 1 .. Len(pipeline.m_shaders[k1].m_descriptorLayoutBuilders[i]),
             b \in 1 .. Len(pipeline.m_shaders[k2].m_descriptorLayoutBuilders[i]) :
             pipeline.m_shaders[k1].m_descriptorLayoutBuilders[i][a].binding
                = pipeline.m_shaders[k2].m_descriptorLayoutBuilders[i][b].binding

\* C18: when two stages declare the same slot of a set, the merge logs an
\* error, the merged builder holds the declarations of all stages, and
\* assembly goes on: the layout is built from the merged builder, and the
\* pipeline is constructed unless a driver call fails its check.
C18_CollisionLoggedAndMerged ==
    Merged
    => \A i \in 0 .. NumLayoutBuilders - 1 :
          Collision(i)
          => /\ \E e \in 1 .. Len(pipeline.log) :
                   /\ pipeline.log[e][1] = "error"
                   /\ pipeline.log[e][2] = "Same binding defined in multiple shaders"
             /\ pipeline.builders[i] = StageDeclarations(i, 1)
             /\ CallsOf("vkCreateDescriptorSetLayout") # << >>
             /\ Assembled <=> \A c \in 1 .. Len(pipeline.calls) :
                                 VK_CHECK(pipeline.calls[c].result)

\* The miss and closest-hit stages both declare set 0 slot 0 and the
\* pipeline was constructed.
C18_Witness ==
    /\ Merged
    /\ Collision(0)
    /\ Assembled
    /\ Len(pipeline.builders[0]) >= 2

\* The stages of the pipeline that use push-constant range r.
StagesUsing(r) ==
    {k \in 1 .. Len(pipeline.m_shaders) : pipeline.m_shaders[k].m_pushConstantRange = r}

\* The push-constant ranges the stages of the pipeline use.
RangesUsed ==
    {pipeline.m_shaders[k].m_pushConstantRange : k \in 1 .. Len(pipeline.m_shaders)}
       \ {r \in {pipeline.m_shaders[k].m_pushConstantRange : k \in 1 .. Len(pipeline.m_shaders)} :
             r.size = 0}

\* C20: in an assembled pipeline a push-constant range that more than one
\* stage uses is in the pipeline layout once, not once per stage.
C20_SharedRangeReportedOnce ==
    Assembled
    => \A r \in RangesUsed :
          Cardinality(StagesUsing(r)) > 1
          => Cardinality({a \in 1 .. Len(pipeline.m_layout.pushConstantRanges) :
                             pipeline.m_layout.pushConstantRanges[a] = r}) = 1

(***************************************************************************)
(* The Renderer: Enqueue and Render, with the GPU finishing submitted      *)
(* work on its own.                                                        *)
(***************************************************************************)
MaxRenders == 3
MaxCommands == 2
NumSwapchainImages == 2

\* The image counts vkGetSwapchainImagesKHR may report for a swapchain:
\* the driver decides, from capabilities.minImageCount + 1 up.
ImageCounts == NumSwapchainImages .. NumSwapchainImages + 1

\* The image indices of a swapchain of n images.
SwapchainImages(n) == 0 .. n - 1

\* The functions a client may register.
RenderFunctions == {"draw", "ui"}

\* VK_NULL_HANDLE in m_imagesInFlight; otherwise the entry is the frame slot
\* whose fence it holds.
NoFence == -1

AcquireResults ==
    {"VK_SUCCESS", "VK_SUBOPTIMAL_KHR", "VK_ERROR_OUT_OF_DATE_KHR", "VK_ERROR_DEVICE_LOST"}

PresentResults ==
    {"VK_SUCCESS", "VK_SUBOPTIMAL_KHR", "VK_ERROR_OUT_OF_DATE_KHR", "VK_ERROR_DEVICE_LOST"}

\* The Renderer after its constructor on a swapchain of n images: the
\* per-image arrays are sized to the swapchain (kept here by their sizes),
\* the fences are created signaled, no image is in flight, nothing is
\* registered.
NewRenderer(n) ==
    [pc |-> "idle",
     m_currentFrame |-> 0,
     m_swapchainImages |-> n,
     m_framebuffers |-> n,
     m_mainCommandBuffers |-> n,
     m_renderFinished |-> n,
     m_inFlightFences |-> [k \in Frames |-> TRUE],
     m_imagesInFlight |-> [i \in SwapchainImages(n) |-> NoFence],
     m_renderCommands |-> << >>,
     imageIndex |-> 0,
     inFlight |-> [k \in Frames |-> FALSE],
     trace |-> << >>,
     waitedOn |-> NoFence,
     renders |-> 0]

\* What happened in a Render call: the command buffer was begun, a
\* registered function was called, the command buffer was submitted.
Event(ev, func, frameIndex, image) ==
    [ev |-> ev, func |-> func, frameIndex |-> frameIndex, image |-> image]

\* A wait that returns at once, whatever the fence.
WaitSkipped(r, k) == TRUE

\* vkWaitForFences on the fence of frame slot k returns: the fence is
\* signaled.
FenceWaitSatisfied(r, k) == r.m_inFlightFences[k]

\* RecreateSwapchain onto a swapchain of n images.  vkDeviceWaitIdle: all
\* submitted work finishes and signals its fence.  CleanupSwapchain clears
\* the swapchain images, the framebuffers and the main command buffers, and
\* CreateSwapchain and CreateCommandBuffers fill them again, one per image.
\* CreateSyncObjects is not called: m_renderFinished and m_imagesInFlight
\* keep their size and contents.
RecreateSwapchain(r, n) ==
    [r EXCEPT !.m_inFlightFences = [k \in Frames |-> r.inFlight[k] \/ r.m_inFlightFences[k]],
              !.inFlight = [k \in Frames |-> FALSE],
              !.m_swapchainImages = n,
              !.m_framebuffers = n,
              !.m_mainCommandBuffers = n]

\* A frame counter that does not move.
NextFrameStuck(k) == k

\* m_currentFrame = (m_currentFrame + 1) % MAX_FRAMES_IN_FLIGHT
NextFrame(k) == (k + 1) % MAX_FRAMES_IN_FLIGHT

\* The registered functions called last to first.
RunCommandsBackwards(r, i) ==
    [r EXCEPT !.trace = @ \o [j \in 1 .. Len(r.m_renderCommands) |->
                                Event("command",
                                      r.m_renderCommands[Len(r.m_renderCommands) + 1 - j],
                                      r.m_currentFrame, r.imageIndex)]]

\* for(auto& command : m_renderCommands) command(cb, framebuffer,
\* m_currentFrame, dt), from command i.
RECURSIVE RunCommands(_, _)
RunCommands(r, i) ==
    IF i > Len(r.m_renderCommands) THEN r
    ELSE RunCommands(
            [r EXCEPT !.trace = Append(@, Event("command", r.m_renderCommands[i],
                                                r.m_currentFrame, r.imageIndex))],
            i + 1)

\* Renderer::Enqueue
RendererEnqueue ==
    /\ status = "running"
    /\ renderer.pc = "idle"
    /\ Len(renderer.m_renderCommands) < MaxCommands
    /\ \E func \in RenderFunctions :
          renderer' = [renderer EXCEPT !.m_renderCommands = Append(@, func)]
    /\ UNCHANGED << shaderVars, log, vkCalls, status, lastCall, nCalls, pipeline >>

\* Renderer::Render is called and reaches vkWaitForFences on the fence of
\* the current frame slot.
RenderCall ==
    /\ status = "running"
    /\ renderer.pc = "idle"
    /\ renderer.renders < MaxRenders
    /\ renderer' = [renderer EXCEPT !.pc = "waiting"]
    /\ UNCHANGED << shaderVars, log, vkCalls, status, lastCall, nCalls, pipeline >>

\* The wait for the fence of the current frame slot returns.
RenderWaitForFence ==
    /\ status = "running"
    /\ renderer.pc = "waiting"
    /\ FenceWaitSatisfied(renderer, renderer.m_currentFrame)
    /\ renderer' = [renderer EXCEPT !.pc = "waited",
                                    !.waitedOn = renderer.m_currentFrame,
                                    !.trace = << >>,
                                    !.renders = @ + 1]
    /\ UNCHANGED << shaderVars, log, vkCalls, status, lastCall, nCalls, pipeline >>

\* vkAcquireNextImageKHR and the branches on its result.
RenderAcquire ==
    /\ status = "running"
    /\ renderer.pc = "waited"
    /\ \E result \in AcquireResults, imageIndex \in SwapchainImages(renderer.m_swapchainImages),
          n \in ImageCounts :
          /\ renderer' =
                IF result = "VK_ERROR_OUT_OF_DATE_KHR"
                THEN [RecreateSwapchain(renderer, n) EXCEPT !.pc = "idle"]
                ELSE IF result # "VK_SUCCESS" /\ result # "VK_SUBOPTIMAL_KHR"
                THEN [renderer EXCEPT !.pc = "thrown"]
                ELSE [renderer EXCEPT !.pc = "acquired", !.imageIndex = imageIndex]
          /\ status' = IF renderer'.pc = "thrown" THEN "aborted" ELSE status
          /\ lastCall' = [op |-> "vkAcquireNextImageKHR", result |-> result]
    /\ UNCHANGED << shaderVars, log, vkCalls, nCalls, pipeline >>

\* The wait for the fence of the frame that uses the image, the reset of
\* the fence of the current slot, the begin of the command buffer and the
\* calls of the registered functions.  m_imagesInFlight[imageIndex] past
\* the end of the vector is undefined behaviour.
RenderRecord ==
    /\ status = "running"
    /\ renderer.pc = "acquired"
    /\ IF renderer.imageIndex \notin DOMAIN renderer.m_imagesInFlight
       THEN /\ renderer' = [renderer EXCEPT !.pc = "undefined"]
            /\ status' = "undefined"
       ELSE /\ LET fence == renderer.m_imagesInFlight[renderer.imageIndex]
               IN  IF fence = NoFence THEN TRUE ELSE FenceWaitSatisfied(renderer, fence)
            /\ renderer' =
                  RunCommands(
                     [renderer EXCEPT
                         !.m_imagesInFlight[renderer.imageIndex] = renderer.m_currentFrame,
                         !.m_inFlightFences[renderer.m_currentFrame] = FALSE,
                         !.trace = << Event("begin", "none", renderer.m_currentFrame,
                                            renderer.imageIndex) >>,
                         !.pc = "recorded"],
                     1)
            /\ status' = status
    /\ UNCHANGED << shaderVars, log, vkCalls, lastCall, nCalls, pipeline >>

\* cb.Submit with the fence of the current slot, vkQueuePresentKHR and the
\* branches on its result, and the step to the next frame slot.
RenderSubmit ==
    /\ status = "running"
    /\ renderer.pc = "recorded"
    /\ \E result \in PresentResults, resized \in BOOLEAN, n \in ImageCounts :
          LET k         == renderer.m_currentFrame
              submitted == [renderer EXCEPT
                              !.m_inFlightFences[k] = FALSE,
                              !.inFlight[k] = TRUE,
                              !.trace = Append(@, Event("submit", "none", k,
                                                        renderer.imageIndex))]
              next      == NextFrame(k)
          IN  /\ renderer' =
                    IF result = "VK_ERROR_DEVICE_LOST"
                    THEN [submitted EXCEPT !.pc = "aborted"]
                    ELSE IF result = "VK_SUBOPTIMAL_KHR" \/ resized
                    THEN [RecreateSwapchain(submitted, n) EXCEPT !.pc = "idle",
                                                              !.m_currentFrame = next]
                    ELSE IF VK_CHECK(result)
                    THEN [submitted EXCEPT !.pc = "idle", !.m_currentFrame = next]
                    ELSE [submitted EXCEPT !.pc = "aborted"]
              /\ status' = IF renderer'.pc = "aborted" THEN "aborted" ELSE status
              /\ lastCall' = [op |-> "vkQueuePresentKHR", result |-> result]
    /\ UNCHANGED << shaderVars, log, vkCalls, nCalls, pipeline >>

\* The GPU finishes the work submitted with the fence of frame slot k and
\* signals the fence.
GpuComplete ==
    /\ \E k \in Frames :
          /\ renderer.inFlight[k]
          /\ renderer' = [renderer EXCEPT !.inFlight[k] = FALSE,
                                          !.m_inFlightFences[k] = TRUE]
    /\ UNCHANGED << shaderVars, log, vkCalls, status, lastCall, nCalls, pipeline >>

InitRenderer ==
    /\ shader = EmptyShader
    /\ decl = << >>
    /\ m_uniformBuffers = << >>
    /\ m_pushConstantData = << >>
    /\ m_descriptorSets = << >>
    /\ log = << >>
    /\ vkCalls = << >>
    /\ status = "running"
    /\ lastCall = NoCall
    /\ nCalls = 0
    /\ pipeline = NoPipeline
    /\ \E n \in ImageCounts : renderer = NewRenderer(n)

NextRenderer ==
    \/ RendererEnqueue
    \/ RenderCall
    \/ RenderWaitForFence
    \/ RenderAcquire
    \/ RenderRecord
    \/ RenderSubmit
    \/ GpuComplete

SpecRenderer == InitRenderer /\ [][NextRenderer]_vars

\* The GPU finishes what was submitted to it, and the thread in Render goes
\* on as soon as its wait can return.
SpecRendererFair ==
    /\ SpecRenderer
    /\ WF_vars(GpuComplete)
    /\ WF_vars(RenderWaitForFence)
    /\ WF_vars(RenderRecord)

\* A registered function was called for frame slot k in this Render call.
CommandsRun(r, k) ==
    \E e \in 1 .. Len(r.trace) : r.trace[e].ev = "command" /\ r.trace[e].frameIndex = k

FrameEvents(r) ==
    << Event("begin", "none", r.m_currentFrame, r.imageIndex) >>
    \o [i \in 1 .. Len(r.m_renderCommands) |->
          Event("command", r.m_renderCommands[i], r.m_currentFrame, r.imageIndex)]
    \o << Event("submit", "none", r.m_currentFrame, r.imageIndex) >>

\* C14: in every rendered frame each registered function is called exactly
\* once, in registration order, all with the current frame slot, after
\* the begin of the frame's command buffer and before its submission.
C14_CommandsOncePerFrameInOrder ==
    [][(renderer.pc = "recorded" /\ renderer'.pc = "idle")
          => renderer'.trace = FrameEvents(renderer)]_vars

\* A frame with two different registered functions was rendered.
C14_Witness ==
    /\ renderer.pc = "idle"
    /\ Len(renderer.trace) = 4
    /\ renderer.trace[2].func # renderer.trace[3].func
    /\ renderer.trace[4].ev = "submit"

\* C21: after reflection the name -> Binding table has no entry under the
\* empty name.
C21_NoEmptyName ==
    Reflected => << >> \notin DOMAIN shader.bindings

\* The constant-buffer and parameter-block wrappers of the global scope, by
\* index into its sub-object ranges.
Wrappers ==
    {k \in 1 .. Len(lastCall.layout.globals.type.subs) :
        lastCall.layout.globals.type.subs[k].type \in {"ConstantBuffer", "ParameterBlock"}}

WrapperSub(k) == lastCall.layout.globals.type.subs[k]

\* The set a wrapper addresses.
WrapperSet(k) ==
    IF WrapperSub(k).type = "ParameterBlock"
    THEN WrapperSub(k).offset.subelement
    ELSE WrapperSub(k).offset.bindingSet + WrapperSub(k).container.off.bindingSet

WrapperSize(k) == WrapperSub(k).element.type.size

\* The UniformBuffer slots declared in a set.
UniformSlots(set) ==
    {j \in 1 .. Len(shader.builders[set]) :
        shader.builders[set][j].descriptorType = "UNIFORM_BUFFER"}

\* C22: after reflection every set has exactly one UniformBuffer slot per
\* wrapper with a uniform footprint that addresses it (none for a wrapper
\* without footprint), and every such wrapper has a region of the wrapped
\* type's size in the aggregate uniform buffer and a uniform Binding for
\* every data field of the wrapped struct.
C22_WrapperDeclaresUniformSlot ==
    Reflected
    => /\ \A set \in 0 .. NumLayoutBuilders - 1 :
             Cardinality(UniformSlots(set))
                = Cardinality({k \in Wrappers : WrapperSet(k) = set /\ WrapperSize(k) > 0})
       /\ \A k \in Wrappers :
             WrapperSize(k) > 0
             => /\ \E u \in 1 .. Len(shader.uniformBufferInfos) :
                      /\ shader.uniformBufferInfos[u].set = WrapperSet(k)
                      /\ shader.uniformBufferInfos[u].size = WrapperSize(k)
                      /\ shader.uniformBufferInfos[u].offset + WrapperSize(k)
                            <= shader.uniformBufferSize
                /\ \A n \in DOMAIN ExpectedFields(WrapperSub(k).element.type.fields, 1,
                                                  << WrapperSub(k).leafName >>, 0) :
                      /\ n \in DOMAIN shader.bindings
                      /\ shader.bindings[n].type = "UNIFORM_BUFFER"
                      /\ ~shader.bindings[n].isPushConstant

\* C23: for every frame slot and every reflected uniform block, the
\* block's slot in the frame slot's descriptor table holds the descriptor
\* the constructor wrote, the frame slot's own uniform buffer at the
\* block's offset and size, whatever SetParameter calls were made since.
C23_UniformSlotBoundOnce ==
    status = "running"
    => \A f \in Frames, u \in 1 .. Len(shader.uniformBufferInfos) :
          LET info == shader.uniformBufferInfos[u]
          IN  /\ info.binding \in DOMAIN m_descriptorSets[f + 1][info.set + 1]
              /\ m_descriptorSets[f + 1][info.set + 1][info.binding] = UniformDescriptor(f, info)

\* The Bindings that name a descriptor: all but the push-constant fields,
\* whose set is a push-constant range index.
DescriptorBindings == {n \in DOMAIN shader.bindings : ~shader.bindings[n].isPushConstant}

\* C24: after the constructor of a Shader, the set index of every Binding
\* is below the number of layout builders and is an index into the
\* descriptor tables of every frame slot, and the constructor itself did
\* not index past the tables.
C24_SetIndexInRange ==
    lastCall.op = "Construct"
    => /\ status = "running"
       /\ \A n \in DescriptorBindings, f \in Frames :
             /\ shader.bindings[n].set < NumLayoutBuilders
             /\ shader.bindings[n].set < Len(m_descriptorSets[f + 1])

\* The copies of the step stay inside the byte range of the Binding.
StepWritesInside ==
    \A i \in 1 .. Len(StepWrites) :
       /\ StepWrites[i].offset >= StepTarget.offset
       /\ StepWrites[i].offset + Len(StepWrites[i].bytes) <= StepTarget.offset + StepTarget.size

\* C25: a data SetParameter call that names a Binding writes only bytes of
\* [offset, offset + size) of the Binding and reads no more bytes from the
\* caller's value than the value holds, whatever the scalar type and the
\* vector length.
C25_CopyWithinRanges ==
    [][(lastCall'.op \in DataOps /\ StepResolved)
       => /\ StepWritesInside
          /\ ~ReadsPast(StepTarget, lastCall'.op \in VectorOps, lastCall'.esz,
                        lastCall'.data)]_vars

\* The step is the return of a Render call that submitted and presented.
StepPresented ==
    renderer.pc = "recorded" /\ renderer'.pc = "idle"

\* The step is the early return of Render on VK_ERROR_OUT_OF_DATE_KHR.
StepOutOfDate ==
    /\ renderer.pc = "waited"
    /\ renderer'.pc = "idle"
    /\ lastCall'.result = "VK_ERROR_OUT_OF_DATE_KHR"

\* C28: m_currentFrame is always one of 0 .. MAX_FRAMES_IN_FLIGHT - 1; the
\* return of a Render call that submitted and presented moves it by one
\* modulo MAX_FRAMES_IN_FLIGHT, the early return on an out-of-date
\* acquisition leaves it as it was, and nothing else changes it.
C28_CurrentFrameAdvances ==
    /\ [](renderer.m_currentFrame \in Frames)
    /\ [][/\ StepPresented
             => renderer'.m_currentFrame
                   = (renderer.m_currentFrame + 1) % MAX_FRAMES_IN_FLIGHT
          /\ StepOutOfDate => renderer'.m_currentFrame = renderer.m_currentFrame
          /\ ~StepPresented => renderer'.m_currentFrame = renderer.m_currentFrame]_vars

\* After a Render call that returned early, a second call has presented on
\* slot 1 and the counter is back at slot 0.
C28_Witness ==
    /\ renderer.pc = "idle"
    /\ renderer.renders = 3
    /\ renderer.m_currentFrame = 0
    /\ lastCall.op = "vkQueuePresentKHR"

\* The fence of slot k is signaled or work submitted with it is pending.
FencePending(k) == renderer.m_inFlightFences[k] \/ renderer.inFlight[k]

\* C29: whenever Render waits on the fence of the current slot or on the
\* fence recorded for the acquired image, the fence is signaled or work
\* submitted with it is pending; Render returns early on an out-of-date
\* acquisition with the fence of the slot still signaled; and with a GPU
\* that finishes its work, every wait of Render returns.
C29_FenceWaitsReturn ==
    /\ [](renderer.pc = "waiting" => FencePending(renderer.m_currentFrame))
    /\ [](renderer.pc = "acquired"
          => /\ renderer.imageIndex \in DOMAIN renderer.m_imagesInFlight
             /\ LET fence == renderer.m_imagesInFlight[renderer.imageIndex]
                IN  IF fence = NoFence THEN TRUE ELSE FencePending(fence))
    /\ [][StepOutOfDate => renderer'.m_inFlightFences[renderer'.m_currentFrame]]_vars
    /\ (renderer.pc = "waiting") ~> (renderer.pc = "waited")
    /\ (renderer.pc = "acquired") ~> (renderer.pc = "recorded")

\* C30: each per-image array Render indexes has one entry per image of
\* the current swapchain, so the acquired image index is an index into each
\* of them.
C30_PerImageArraysMatchSwapchain ==
    renderer.pc \in {"idle", "waiting", "waited", "acquired", "recorded"}
    => /\ renderer.m_mainCommandBuffers = renderer.m_swapchainImages
       /\ renderer.m_framebuffers = renderer.m_swapchainImages
       /\ renderer.m_renderFinished = renderer.m_swapchainImages
       /\ DOMAIN renderer.m_imagesInFlight = SwapchainImages(renderer.m_swapchainImages)
       /\ renderer.pc \in {"acquired", "recorded"}
          => /\ renderer.imageIndex < renderer.m_mainCommandBuffers
             /\ renderer.imageIndex < renderer.m_framebuffers
             /\ renderer.imageIndex < renderer.m_renderFinished
             /\ renderer.imageIndex \in DOMAIN renderer.m_imagesInFlight

(***************************************************************************)
(* The lifetime of Pipeline objects and of the shader modules they are     *)
(* built from: construction, move construction, move assignment,           *)
(* destruction and Bind.  Here shader holds the shared Shader objects,     *)
(* pipeline the Pipeline objects by storage slot, and vkCalls the calls    *)
(* that create and destroy Vulkan objects; the handle of an object is the  *)
(* position of the call that created it.                                   *)
(***************************************************************************)
MaxPipelines == 3
MaxShaders == 2

Slots == 1 .. MaxPipelines

ShaderIds == 1 .. MaxShaders

VK_NULL_HANDLE == 0

\* The numbers of non-empty layout builders a compute shader comes with.
LayoutCounts == {0, 1}

VkCreate(name, module) == [name |-> name, handle |-> VK_NULL_HANDLE, module |-> module]

VkDestroy(name, handle) == [name |-> name, handle |-> handle, module |-> VK_NULL_HANDLE]

\* A storage slot before a Pipeline is constructed in it.
Unborn ==
    [life |-> "unborn", m_shaders |-> << >>, m_pipeline |-> VK_NULL_HANDLE,
     m_layout |-> VK_NULL_HANDLE, m_descriptorLayouts |-> << >>, m_descriptorSets |-> << >>]

\* Shader::DestroyShaderModule
DestroyShaderModule(sh, calls) ==
    IF sh.m_shaderModule # VK_NULL_HANDLE
    THEN [sh    |-> [sh EXCEPT !.m_shaderModule = VK_NULL_HANDLE],
          calls |-> Append(calls, VkDestroy("vkDestroyShaderModule", sh.m_shaderModule))]
    ELSE [sh |-> sh, calls |-> calls]

\* Pipeline::Setup of a compute pipeline on shader s whose builders give n
\* descriptor-set layouts: CreateDescriptors, CreateComputePipeline with
\* the shader's module, DestroyShaderModule.
LifetimeSetup(s, n, calls) ==
    LET base    == Len(calls)
        layouts == [l \in 1 .. n |-> base + l]
        tables  == IF n = 0 THEN << >>
                   ELSE [f \in 1 .. MAX_FRAMES_IN_FLIGHT |->
                           [l \in 1 .. n |-> base + n + (f - 1) * n + l]]
        made    == n + (IF n = 0 THEN 0 ELSE MAX_FRAMES_IN_FLIGHT * n)
        c1      == calls
                   \o [l \in 1 .. n |-> VkCreate("vkCreateDescriptorSetLayout", VK_NULL_HANDLE)]
                   \o [t \in 1 .. made - n |-> VkCreate("vkAllocateDescriptorSets", VK_NULL_HANDLE)]
                   \o << VkCreate("vkCreatePipelineLayout", VK_NULL_HANDLE),
                         VkCreate("vkCreateComputePipelines", shader[s].m_shaderModule) >>
        d       == DestroyShaderModule(shader[s], c1)
    IN  [object |-> [life |-> "alive", m_shaders |-> << s >>,
                     m_pipeline |-> base + made + 2, m_layout |-> base + made + 1,
                     m_descriptorLayouts |-> layouts, m_descriptorSets |-> tables],
         sh     |-> d.sh,
         calls  |-> d.calls,
         module |-> shader[s].m_shaderModule]

\* Pipeline::Pipeline(shaderName, createInfo) in a free slot.  A pipeline
\* created from VK_NULL_HANDLE as its shader module is undefined.
PipelineConstruct ==
    /\ status = "running"
    /\ \E slot \in Slots, s \in ShaderIds, n \in LayoutCounts :
          /\ pipeline[slot].life = "unborn"
          /\ LET r == LifetimeSetup(s, n, vkCalls)
             IN  /\ pipeline' = [pipeline EXCEPT ![slot] = r.object]
                 /\ shader' = [shader EXCEPT ![s] = r.sh]
                 /\ vkCalls' = r.calls
                 /\ status' = IF r.module = VK_NULL_HANDLE THEN "undefined" ELSE "running"
                 /\ lastCall' = [op |-> "Construct", dst |-> slot, src |-> slot]
    /\ UNCHANGED << decl, m_uniformBuffers, m_pushConstantData, m_descriptorSets, log,
                    nCalls, renderer >>

\* What a move leaves in the moved-from Pipeline.
MovedFrom(other) ==
    [other EXCEPT !.m_shaders = << >>, !.m_pipeline = VK_NULL_HANDLE]

\* Pipeline(Pipeline&& other): the members of the initializer list; the
\* descriptor layouts and tables are default-constructed.
PipelineMoveConstruct ==
    /\ status = "running"
    /\ \E dst \in Slots, src \in Slots :
          /\ pipeline[dst].life = "unborn"
          /\ pipeline[src].life = "alive"
          /\ pipeline' = [pipeline EXCEPT
                ![dst] = [Unborn EXCEPT !.life = "alive",
                                        !.m_shaders = pipeline[src].m_shaders,
                                        !.m_pipeline = pipeline[src].m_pipeline,
                                        !.m_layout = pipeline[src].m_layout],
                ![src] = MovedFrom(pipeline[src])]
          /\ lastCall' = [op |-> "MoveConstruct", dst |-> dst, src |-> src]
    /\ UNCHANGED << shader, decl, m_uniformBuffers, m_pushConstantData, m_descriptorSets, log,
                    vkCalls, status, nCalls, renderer >>

\* Pipeline& operator=(Pipeline&& other): the assigned members; the handles
\* the target held are overwritten, its descriptor layouts and tables kept.
PipelineMoveAssign ==
    /\ status = "running"
    /\ \E dst \in Slots, src \in Slots :
          /\ dst # src
          /\ pipeline[dst].life = "alive"
          /\ pipeline[src].life = "alive"
          /\ pipeline' = [pipeline EXCEPT
                ![dst] = [pipeline[dst] EXCEPT !.m_shaders = pipeline[src].m_shaders,
                                               !.m_pipeline = pipeline[src].m_pipeline,
                                               !.m_layout = pipeline[src].m_layout],
                ![src] = MovedFrom(pipeline[src])]
          /\ lastCall' = [op |-> "MoveAssign", dst |-> dst, src |-> src]
    /\ UNCHANGED << shader, decl, m_uniformBuffers, m_pushConstantData, m_descriptorSets, log,
                    vkCalls, status, nCalls, renderer >>

\* Pipeline::~Pipeline
PipelineDestroy ==
    /\ status = "running"
    /\ \E slot \in Slots :
          LET p == pipeline[slot]
          IN  /\ p.life = "alive"
              /\ pipeline' = [pipeline EXCEPT ![slot] =
                                 [p EXCEPT !.life = "dead", !.m_pipeline = VK_NULL_HANDLE]]
              /\ vkCalls' =
                    IF p.m_pipeline = VK_NULL_HANDLE THEN vkCalls
                    ELSE vkCalls
                         \o [l \in 1 .. Len(p.m_descriptorLayouts) |->
                               VkDestroy("vkDestroyDescriptorSetLayout", p.m_descriptorLayouts[l])]
                         \o << VkDestroy("vkDestroyPipeline", p.m_pipeline),
                               VkDestroy("vkDestroyPipelineLayout", p.m_layout) >>
              /\ lastCall' = [op |-> "Destroy", dst |-> slot, src |-> slot]
    /\ UNCHANGED << shader, decl, m_uniformBuffers, m_pushConstantData, m_descriptorSets, log,
                    status, nCalls, renderer >>

\* Pipeline::Bind of a Pipeline that holds a pipeline object: the tables
\* handed to vkCmdBindDescriptorSets, none when m_descriptorSets is empty.
PipelineBind ==
    /\ status = "running"
    /\ \E slot \in Slots, frameIndex \in Frames :
          LET p == pipeline[slot]
          IN  /\ p.life = "alive"
              /\ p.m_pipeline # VK_NULL_HANDLE
              /\ lastCall' = [op |-> "Bind", dst |-> slot, src |-> slot,
                              frameIndex |-> frameIndex,
                              tables |-> IF p.m_descriptorSets = << >> THEN << >>
                                         ELSE p.m_descriptorSets[frameIndex + 1]]
    /\ UNCHANGED << shader, decl, m_uniformBuffers, m_pushConstantData, m_descriptorSets, log,
                    vkCalls, status, nCalls, pipeline, renderer >>

\* Every Shader was constructed: Compile has created its module.
InitLifetime ==
    /\ shader = [s \in ShaderIds |-> [m_shaderModule |-> s]]
    /\ vkCalls = [s \in ShaderIds |-> VkCreate("vkCreateShaderModule", VK_NULL_HANDLE)]
    /\ pipeline = [slot \in Slots |-> Unborn]
    /\ decl = << >>
    /\ m_uniformBuffers = << >>
    /\ m_pushConstantData = << >>
    /\ m_descriptorSets = << >>
    /\ log = << >>
    /\ status = "running"
    /\ lastCall = NoCall
    /\ nCalls = 0
    /\ renderer = NoRenderer

NextLifetime ==
    \/ PipelineConstruct
    \/ PipelineMoveConstruct
    \/ PipelineMoveAssign
    \/ PipelineDestroy
    \/ PipelineBind

SpecLifetime == InitLifetime /\ [][NextLifetime]_vars

\* The positions of the calls named name.
CallsNamed(name) == {i \in 1 .. Len(vkCalls) : vkCalls[i].name = name}

\* How many times the object with handle h was destroyed.
DestroyCount(h) ==
    Cardinality({i \in 1 .. Len(vkCalls) :
                    /\ vkCalls[i].name \in {"vkDestroyDescriptorSetLayout", "vkDestroyPipeline",
                                           "vkDestroyPipelineLayout", "vkDestroyShaderModule"}
                    /\ vkCalls[i].handle = h})

\* The step constructs a Pipeline.
StepConstruct == lastCall'.op = "Construct" /\ vkCalls' # vkCalls

\* C26: every pipeline object is created from a shader module that is
\* valid at the time of the call, also when the Shader was used to
\* construct a Pipeline before; and constructing a Pipeline leaves the
\* Shaders of the other live Pipelines as they were.
C26_SharedShaderModuleValid ==
    /\ [](\A i \in CallsNamed("vkCreateComputePipelines") :
             /\ vkCalls[i].module # VK_NULL_HANDLE
             /\ \A j \in 1 .. i : ~(vkCalls[j].name = "vkDestroyShaderModule"
                                    /\ vkCalls[j].handle = vkCalls[i].module))
    /\ [][StepConstruct
          => \A a \in Slots \ {lastCall'.dst} :
                \A k \in 1 .. Len(pipeline[a].m_shaders) :
                   shader'[pipeline[a].m_shaders[k]] = shader[pipeline[a].m_shaders[k]]]_vars

\* The objects a Pipeline owns: descriptor-set layouts, pipeline layouts and
\* pipeline objects.
OwnedObjects ==
    CallsNamed("vkCreateDescriptorSetLayout") \cup CallsNamed("vkCreatePipelineLayout")
    \cup CallsNamed("vkCreateComputePipelines")

\* Every constructed Pipeline object has been destroyed.
AllDestroyed ==
    /\ \A slot \in Slots : pipeline[slot].life # "alive"
    /\ \E slot \in Slots : pipeline[slot].life = "dead"

\* C27: no descriptor-set layout, pipeline layout or pipeline object is
\* destroyed twice, each of them has been destroyed once when every
\* Pipeline object is destroyed, and a move hands the per-frame descriptor
\* tables of the source to the target.
C27_OwnedObjectsDestroyedOnce ==
    /\ [](\A h \in OwnedObjects : DestroyCount(h) <= 1)
    /\ [](AllDestroyed => \A h \in OwnedObjects : DestroyCount(h) = 1)
    /\ [][lastCall'.op \in {"MoveConstruct", "MoveAssign"} /\ pipeline' # pipeline
          => pipeline'[lastCall'.dst].m_descriptorSets
                = pipeline[lastCall'.src].m_descriptorSets]_vars

====
